---- MODULE Spec2Model ----
(***************************************************************************)
(* Verification model of chpatton013/fileserver.                           *)
(*                                                                         *)
(* Python objects live in a heap: every value (scalars included) is a cell *)
(* with an address, mappings and lists hold addresses of their members.    *)
(* utility.merge is translated statement by statement onto that heap, so   *)
(* that aliasing, in-place updates and object identity are observable.     *)
(***************************************************************************)
EXTENDS Integers, Sequences, FiniteSets, TLC

\* ------------------------------------------------------------------------
\* Bounds of the model
\* ------------------------------------------------------------------------

\* Total number of nodes of the two argument trees of one merge call.
MaxNodes == 5

\* ------------------------------------------------------------------------
\* Configuration trees (the values a YAML/schema loader hands to merge)
\* ------------------------------------------------------------------------

\* The mapping keys that occur in the argument trees.
Keys == {"a", "b"}

\* Python scalar objects: type name and printed value.
Scalar(t, v) == [type |-> t, val |-> v, keys |-> <<>>, kids |-> <<>>]

NoneValue == Scalar("NoneType", "None")

Scalars ==
  {NoneValue, Scalar("str", "s"), Scalar("int", "1"), Scalar("int", "2"),
   Scalar("bool", "True")}

ScalarTypes == {"NoneType", "str", "int", "bool"}

\* A list object holding the given member trees.
ListTree(kids) == [type |-> "list", val |-> "", keys |-> <<>>, kids |-> kids]

\* An ordered mapping holding keys[i] -> kids[i], in insertion order.
DictTree(keys, kids) ==
  [type |-> "OrderedDict", val |-> "", keys |-> keys, kids |-> kids]

EmptyDict == DictTree(<<>>, <<>>)

Range(s) == {s[i] : i \in DOMAIN s}

IsInjective(s) == \A i, j \in DOMAIN s : s[i] = s[j] => i = j

KeySeqs(k) == {ks \in [1..k -> Keys] : IsInjective(ks)}

\* Sequences of k trees whose sizes add up to exactly n, drawn from bySize
\* (bySize[m] = the trees of size m); FirstOfSize: those whose first tree
\* has at least m nodes.
RECURSIVE Forests(_, _, _), FirstOfSize(_, _, _, _)
Forests(bySize, k, n) ==
  IF k = 0 THEN (IF n = 0 THEN {<<>>} ELSE {})
  ELSE FirstOfSize(bySize, k, n, 1)

FirstOfSize(bySize, k, n, m) ==
  IF m > n - (k - 1) THEN {}
  ELSE {<<t>> \o rest : t \in bySize[m], rest \in Forests(bySize, k - 1, n - m)}
       \cup FirstOfSize(bySize, k, n, m + 1)

\* The lists and the mappings of n nodes that have at least k members.
RECURSIVE ContainersOfSize(_, _, _)
ContainersOfSize(smaller, n, k) ==
  IF k > n - 1 THEN {}
  ELSE {ListTree(f) : f \in Forests(smaller, k, n - 1)}
       \cup {DictTree(ks, f) : ks \in KeySeqs(k),
                               f \in Forests(smaller, k, n - 1)}
       \cup ContainersOfSize(smaller, n, k + 1)

\* The trees of exactly n nodes, given those of fewer nodes by size.
TreesOfSize(smaller, n) ==
  (IF n = 1 THEN Scalars ELSE {}) \cup ContainersOfSize(smaller, n, 0)

\* TreesBySize(n)[m], m <= n, is the set of trees with exactly m nodes.
RECURSIVE TreesBySize(_)
TreesBySize(n) ==
  IF n = 0 THEN <<>>
  ELSE LET Grow(smaller) == Append(smaller, TreesOfSize(smaller, n))
       IN  Grow(TreesBySize(n - 1))

TreeSizes == TreesBySize(MaxNodes - 1)

\* The sizes of a pair of argument trees: MaxNodes nodes at most together.
ArgSizes == {p \in (1..MaxNodes) \X (1..MaxNodes) : p[1] + p[2] <= MaxNodes}

\* ------------------------------------------------------------------------
\* The Python heap
\* ------------------------------------------------------------------------

\* A heap is a sequence of cells; the address of a cell is its index.
\* A mapping cell keeps keys[i] -> refs[i] in insertion order, a list cell
\* keeps its members in refs, a scalar cell only has a type and a value.
Cell(t, v, ks, rs) == [type |-> t, val |-> v, keys |-> ks, refs |-> rs]

\* Allocation of a new object: the cell is appended, its address is fresh.
New(h, cell) == [heap |-> Append(h, cell), ret |-> Len(h) + 1]

\* Loading a tree into the heap, members first, yields the address of its
\* root; every node of the tree becomes an object of its own.
RECURSIVE Load(_, _), LoadAll(_, _, _)
Load(h, tree) ==
  LET kids == LoadAll(h, tree.kids, 1)
  IN  New(kids.heap, Cell(tree.type, tree.val, tree.keys, kids.refs))

LoadAll(h, trees, i) ==
  IF i > Len(trees) THEN [heap |-> h, refs |-> <<>>]
  ELSE LET first == Load(h, trees[i])
           rest  == LoadAll(first.heap, trees, i + 1)
       IN  [heap |-> rest.heap, refs |-> <<first.ret>> \o rest.refs]

\* The tree an address stands for (its value, identities forgotten).
RECURSIVE Val(_, _)
Val(h, a) ==
  [type |-> h[a].type, val |-> h[a].val, keys |-> h[a].keys,
   kids |-> [i \in DOMAIN h[a].refs |-> Val(h, h[a].refs[i])]]

\* ------------------------------------------------------------------------
\* Python dictionary and call primitives
\* ------------------------------------------------------------------------

NoException == "none"

Return(h, a) == [heap |-> h, ret |-> a, exc |-> NoException]

Raise(h, e) == [heap |-> h, ret |-> 0, exc |-> e]

\* Position of key k in mapping cell d, 0 when absent (k in d).
IndexOf(ks, k) ==
  IF \E i \in DOMAIN ks : ks[i] = k
  THEN CHOOSE i \in DOMAIN ks : ks[i] = k
  ELSE 0

Contains(h, d, k) == IndexOf(h[d].keys, k) # 0

\* d[k]
GetItem(h, d, k) == h[d].refs[IndexOf(h[d].keys, k)]

\* Variant: assigning to an existing key moves the key to the end.
SetItem_MoveToEnd(h, d, k, v) ==
  LET i == IndexOf(h[d].keys, k)
      Drop(s) == [j \in 1..(Len(s) - 1) |-> IF j < i THEN s[j] ELSE s[j + 1]]
  IN  IF i # 0
      THEN [h EXCEPT ![d].keys = Append(Drop(@), k),
                     ![d].refs = Append(Drop(@), v)]
      ELSE [h EXCEPT ![d].keys = Append(@, k), ![d].refs = Append(@, v)]

\* d[k] = v : an existing key keeps its position, a new key goes last.
SetItem(h, d, k, v) ==
  LET i == IndexOf(h[d].keys, k)
  IN  IF i # 0
      THEN [h EXCEPT ![d].refs[i] = v]
      ELSE [h EXCEPT ![d].keys = Append(@, k), ![d].refs = Append(@, v)]

\* ------------------------------------------------------------------------
\* utility.merge
\* ------------------------------------------------------------------------

InconsistentTypeError == "InconsistentTypeError"

RECURSIVE merge(_, _, _), _merge_dict_items(_, _, _, _)
RECURSIVE InitializeResult(_, _, _, _), ApplyRhs(_, _, _, _)

\* Variant: None is of every type.
TypesDiffer_NoneMatches(h, lhs, rhs) ==
  /\ h[lhs].type # h[rhs].type
  /\ h[lhs].type # "NoneType"
  /\ h[rhs].type # "NoneType"

\* Variant: only the shape-classes (mapping / sequence / scalar) are compared.
TypesDiffer_ByShape(h, lhs, rhs) ==
  LET Shape(t) == IF t \in {"OrderedDict", "dict"} THEN "mapping"
                  ELSE IF t = "list" THEN "sequence" ELSE "scalar"
  IN  Shape(h[lhs].type) # Shape(h[rhs].type)

\* Variant: a scalar on either side is never rejected.
TypesDiffer_ContainersOnly(h, lhs, rhs) ==
  /\ h[lhs].type # h[rhs].type
  /\ h[lhs].type \in {"OrderedDict", "dict", "list"}
  /\ h[rhs].type \in {"OrderedDict", "dict", "list"}

\* type(lhs) != type(rhs): the exact Python types are compared.
TypesDiffer(h, lhs, rhs) == h[lhs].type # h[rhs].type

\* collections.OrderedDict() / dict(): a new, empty mapping object.
NewMapping(h, arg_type) == New(h, Cell(arg_type, "", <<>>, <<>>))

\* Variant: rhs + lhs.
ListAdd_Reversed(h, lhs, rhs) ==
  LET r == New(h, Cell("list", "", <<>>, h[rhs].refs \o h[lhs].refs))
  IN  Return(r.heap, r.ret)

\* lhs + rhs on lists: a new list object, members of lhs then of rhs.
ListAdd(h, lhs, rhs) ==
  LET r == New(h, Cell("list", "", <<>>, h[lhs].refs \o h[rhs].refs))
  IN  Return(r.heap, r.ret)

\* for k, v in lhs.items(): result[k] = v     (from item i on)
InitializeResult(h, lhs, result, i) ==
  IF i > Len(h[lhs].keys) THEN h
  ELSE InitializeResult(SetItem(h, result, h[lhs].keys[i], h[lhs].refs[i]),
                        lhs, result, i + 1)

\* Variant: result[k] = v, as dict.update does.
MergeIntoResult_Update(h, result, k, v) ==
  Return(SetItem(h, result, k, v), result)

\* result[k] = merge(result[k], v), for a key k already in result.
MergeIntoResult(h, result, k, v) ==
  LET m == merge(h, GetItem(h, result, k), v)
  IN  IF m.exc # NoException THEN m
      ELSE Return(SetItem(m.heap, result, k, m.ret), result)

\* for k, v in rhs.items(): merge or insert     (from item i on)
ApplyRhs(h, rhs, result, i) ==
  IF i > Len(h[rhs].keys) THEN Return(h, result)
  ELSE LET k == h[rhs].keys[i]
           v == h[rhs].refs[i]
       IN  IF Contains(h, result, k)
           THEN LET m == MergeIntoResult(h, result, k, v)
                IN  IF m.exc # NoException THEN m
                    ELSE ApplyRhs(m.heap, rhs, result, i + 1)
           ELSE ApplyRhs(SetItem(h, result, k, v), rhs, result, i + 1)

_merge_dict_items(h, lhs, rhs, result) ==
  ApplyRhs(InitializeResult(h, lhs, result, 1), rhs, result, 1)

\* Variant: mappings are merged into lhs itself, as dict.update does.
merge_InPlace(h, lhs, rhs) ==
  IF h[lhs].type # h[rhs].type THEN Raise(h, InconsistentTypeError)
  ELSE LET arg_type == h[lhs].type
       IN  IF arg_type \in {"OrderedDict", "dict"}
           THEN _merge_dict_items(h, lhs, rhs, lhs)
           ELSE IF arg_type = "list"
           THEN ListAdd(h, lhs, rhs)
           ELSE Return(h, rhs)

merge(h, lhs, rhs) ==
  IF TypesDiffer(h, lhs, rhs) THEN Raise(h, InconsistentTypeError)
  ELSE LET arg_type == h[lhs].type
       IN  IF arg_type \in {"OrderedDict", "dict"}
           THEN LET result == NewMapping(h, arg_type)
                IN  _merge_dict_items(result.heap, lhs, rhs, result.ret)
           ELSE IF arg_type = "list"
           THEN ListAdd(h, lhs, rhs)
           ELSE Return(h, rhs)

\* ------------------------------------------------------------------------
\* State
\* ------------------------------------------------------------------------

VARIABLES
  pc,             \* position of the running workflow
  heap,           \* the Python heap
  exc,            \* the exception that ended the workflow, NoException if none
  lhs, rhs,       \* addresses of the arguments of a call of merge
  ret,            \* address of the object merge returned, 0 when none
  layers,         \* addresses of three trees merged pairwise in two groupings
  grouping,       \* which pair is merged first: "left" or "right"
  merged,         \* what the merge of the first pair returned
  configuration,  \* Merge.configuration: addresses of the loaded documents
  config,         \* Merge.do: address of the accumulator of reduce
  idx,            \* position of a running loop in its list
  output_file,    \* Merge.do: the document dumped to args.output_file
  defaults,       \* address of schema["defaults"] of a group
  items,          \* addresses of schema["devices"] / schema["volumes"]
  entities,       \* addresses of the Device / Volume objects built so far
  disk_devices,   \* parameters.py: the device list passed to a derivation
  raid_level,     \* parameters.py: the RAID level passed to a derivation
  callee,         \* parameters.py: the derivation that is called
  value,          \* parameters.py: what the derivation returned
  outputs,        \* parameters.py: what the probe printed for each device
  volume_name,    \* Configuration.find_*: the name that is looked up
  found,          \* Configuration.find_*: what the lookup returned
  dryrun,         \* Executor.dryrun
  rc_commands,    \* Tune.do: the command lines collected for /etc/rc.local
  executed,       \* what the executor has run or written on the system
  issued,         \* the calls made on the executor, in the order made
  rc_file_contents, \* _tune_persist: the lines joined for /etc/rc.local
  args,           \* manage.py: the parsed command line
  returned,       \* what the calls of run, write and spawn have returned
  handles,        \* the process handles made by spawn, and their processes
  processes       \* randomize_drives: the handles still waited for

layerVars == <<layers, grouping, merged>>

mergeVars == <<lhs, rhs, ret, layerVars>>

doVars == <<configuration, config, output_file>>

groupVars == <<defaults, items, entities>>

paramVars == <<disk_devices, raid_level, callee, value, outputs>>

lookupVars == <<volume_name, found>>

manageVars == <<args, returned, handles, processes>>

tuneVars ==
  <<dryrun, rc_commands, executed, issued, rc_file_contents, manageVars>>

vars ==
  <<pc, heap, exc, idx, mergeVars, doVars, groupVars, paramVars, lookupVars,
    tuneVars>>

\* Python numbers and None as returned by the derivations.
PyInt(n) == [type |-> "int", num |-> n]

PyNone == [type |-> "NoneType", num |-> 0]

\* No derivation takes part.
NoDerivation ==
  /\ disk_devices = <<>> /\ raid_level = 0 /\ callee = "" /\ value = PyNone
  /\ outputs = <<>>

NoLayers == layers = <<>> /\ grouping = "" /\ merged = 0

NoMergeCall == lhs = 0 /\ rhs = 0 /\ ret = 0 /\ NoLayers

NoLookup == volume_name = "" /\ found = <<>>

\* No executor has been made and nothing has been executed.
NoArgs ==
  [func |-> "", randomize |-> FALSE, devices |-> 0,
   raid_chunk_size |-> PyNone]

\* No command line is parsed and nothing is spawned.
NoManage ==
  args = NoArgs /\ returned = <<>> /\ handles = <<>> /\ processes = <<>>

NoTune ==
  /\ dryrun = FALSE /\ rc_commands = <<>> /\ executed = <<>>
  /\ issued = <<>> /\ rc_file_contents = <<>>
  /\ NoManage

\* Nothing has been written to the output file.
NotWritten == [written |-> FALSE, document |-> EmptyDict]

NoMergeAction ==
  configuration = <<>> /\ config = 0 /\ output_file = NotWritten

NoGroup == defaults = 0 /\ items = <<>> /\ entities = <<>>

\* ------------------------------------------------------------------------
\* A caller of merge: two loaded trees, one call
\* ------------------------------------------------------------------------

InitMerge ==
  \E n \in ArgSizes : \E p \in TreeSizes[n[1]] \X TreeSizes[n[2]] :
    LET l == Load(<<>>, p[1])
        r == Load(l.heap, p[2])
    IN  /\ pc = "call"
        /\ heap = r.heap
        /\ lhs = l.ret
        /\ rhs = r.ret
        /\ ret = 0
        /\ NoLayers
        /\ exc = NoException
        /\ idx = 0
        /\ NoMergeAction
        /\ NoGroup
        /\ NoDerivation
        /\ NoLookup
        /\ NoTune

CallMerge ==
  /\ pc = "call"
  /\ LET m == merge(heap, lhs, rhs)
     IN  /\ heap' = m.heap
         /\ ret' = m.ret
         /\ exc' = m.exc
  /\ pc' = "done"
  /\ UNCHANGED <<lhs, rhs, layerVars, idx, doVars, groupVars, paramVars,
                 lookupVars, tuneVars>>

NextMerge == CallMerge

SpecMerge == InitMerge /\ [][NextMerge]_vars

\* ------------------------------------------------------------------------
\* Vocabulary of the merge claims
\* ------------------------------------------------------------------------

MappingTypes == {"OrderedDict", "dict"}

IsMapping(t) == t.type \in MappingTypes

IsSequence(t) == t.type = "list"

IsScalar(t) == t.type \in ScalarTypes

\* mapping / sequence / scalar
ShapeClass(t) ==
  IF IsMapping(t) THEN "mapping" ELSE IF IsSequence(t) THEN "sequence"
  ELSE "scalar"

\* t[k] on trees
TreeGet(t, k) == t.kids[IndexOf(t.keys, k)]

KeySet(t) == Range(t.keys)

\* What merge does on two trees loaded into a heap of their own: the
\* exception it raises, or the tree it returns.
Outcome(l, r) ==
  LET a == Load(<<>>, l)
      b == Load(a.heap, r)
      m == merge(b.heap, a.ret, b.ret)
  IN  IF m.exc # NoException THEN [exc |-> m.exc, val |-> NoneValue]
      ELSE [exc |-> NoException, val |-> Val(m.heap, m.ret)]

Done == pc = "done"

Returned == pc = "done" /\ exc = NoException

ArgL == Val(heap, lhs)

ArgR == Val(heap, rhs)

Result == Val(heap, ret)

\* C1: merging two mappings returns a mapping whose key set is the union of
\* the two key sets; a key only in lhs keeps lhs's value (the very same
\* object), a key only in rhs keeps rhs's value, a key in both maps to
\* merge(lhs[k], rhs[k]); the call fails exactly when one of those recursive
\* merges fails.
C1_MappingMerge ==
  (Done /\ IsMapping(ArgL) /\ IsMapping(ArgR) /\ ArgL.type = ArgR.type) =>
    LET both == KeySet(ArgL) \cap KeySet(ArgR)
    IN  IF \E k \in both :
             Outcome(TreeGet(ArgL, k), TreeGet(ArgR, k)).exc # NoException
        THEN exc = InconsistentTypeError
        ELSE /\ exc = NoException
             /\ IsMapping(Result)
             /\ IsInjective(Result.keys)
             /\ KeySet(Result) = KeySet(ArgL) \cup KeySet(ArgR)
             /\ \A k \in KeySet(ArgL) \ KeySet(ArgR) :
                  /\ TreeGet(Result, k) = TreeGet(ArgL, k)
                  /\ GetItem(heap, ret, k) = GetItem(heap, lhs, k)
             /\ \A k \in KeySet(ArgR) \ KeySet(ArgL) :
                  /\ TreeGet(Result, k) = TreeGet(ArgR, k)
                  /\ GetItem(heap, ret, k) = GetItem(heap, rhs, k)
             /\ \A k \in both :
                  TreeGet(Result, k) =
                    Outcome(TreeGet(ArgL, k), TreeGet(ArgR, k)).val

\* A returned merge of two mappings that share a key whose two values are
\* mappings again, next to a key that only lhs has.
C1_Witness ==
  /\ Returned /\ IsMapping(ArgL) /\ IsMapping(ArgR)
  /\ \E k \in KeySet(ArgL) \cap KeySet(ArgR) :
       /\ IsMapping(TreeGet(ArgL, k)) /\ IsMapping(TreeGet(ArgR, k))
       /\ TreeGet(ArgL, k).keys # <<>>
       /\ TreeGet(Result, k) = TreeGet(ArgL, k)

\* C2 as claimed: merging two scalars of any kinds never fails and returns
\* rhs.
C2_AnyScalars ==
  (Done /\ IsScalar(ArgL) /\ IsScalar(ArgR)) =>
    (exc = NoException /\ ret = rhs)

\* C2 amended: merging two scalars of the same kind returns rhs itself;
\* merging two scalars of different kinds (none and a string, a bool and an
\* int) fails with InconsistentTypeError.
C2_SameKindScalars ==
  (Done /\ IsScalar(ArgL) /\ IsScalar(ArgR)) =>
    IF ArgL.type = ArgR.type
    THEN exc = NoException /\ ret = rhs /\ Result = ArgR
    ELSE exc = InconsistentTypeError /\ ret = 0

\* Two different scalars of one kind have been merged.
C2_Witness ==
  /\ Returned /\ IsScalar(ArgL) /\ IsScalar(ArgR)
  /\ ArgL.type = ArgR.type /\ ArgL.val # ArgR.val

\* C3: merging two sequences returns the members of lhs followed by the
\* members of rhs, the same objects, none merged, none dropped.
C3_SequenceConcat ==
  (Done /\ IsSequence(ArgL) /\ IsSequence(ArgR)) =>
    /\ exc = NoException
    /\ IsSequence(Result)
    /\ Len(Result.kids) = Len(ArgL.kids) + Len(ArgR.kids)
    /\ \A i \in 1..Len(Result.kids) :
         IF i <= Len(ArgL.kids)
         THEN /\ Result.kids[i] = ArgL.kids[i]
              /\ heap[ret].refs[i] = heap[lhs].refs[i]
         ELSE /\ Result.kids[i] = ArgR.kids[i - Len(ArgL.kids)]
              /\ heap[ret].refs[i] = heap[rhs].refs[i - Len(ArgL.kids)]

\* Two sequences that differ and hold a mapping each have been merged.
C3_Witness ==
  /\ Returned /\ IsSequence(ArgL) /\ IsSequence(ArgR)
  /\ ArgL # ArgR
  /\ \E i \in DOMAIN ArgL.kids : IsMapping(ArgL.kids[i])
  /\ \E i \in DOMAIN ArgR.kids : IsMapping(ArgR.kids[i])

\* The two trees disagree in shape-class at the root or at a path through
\* keys that both mappings have.
RECURSIVE ShapeMismatch(_, _)
ShapeMismatch(l, r) ==
  \/ ShapeClass(l) # ShapeClass(r)
  \/ /\ IsMapping(l) /\ IsMapping(r)
     /\ \E k \in KeySet(l) \cap KeySet(r) :
          ShapeMismatch(TreeGet(l, k), TreeGet(r, k))

\* C4: a shape-class mismatch at the root or under common keys makes merge
\* fail with InconsistentTypeError, and nothing is returned.
C4_ShapeMismatchFails ==
  (Done /\ ShapeMismatch(ArgL, ArgR)) =>
    (exc = InconsistentTypeError /\ ret = 0)

\* A merge of two mappings has failed on a mismatch below the root.
C4_Witness ==
  /\ Done /\ exc = InconsistentTypeError
  /\ IsMapping(ArgL) /\ IsMapping(ArgR)
  /\ ShapeMismatch(ArgL, ArgR)

\* The keys of rhs that lhs does not have, in rhs's order.
RhsOnlyKeys(l, r) ==
  LET NotInL(k) == k \notin KeySet(l) IN SelectSeq(r.keys, NotInL)

\* res has the keys of l in l's order, then the rhs-only keys in r's order,
\* and so have the mappings merged under common keys.
RECURSIVE KeyOrderOK(_, _, _)
KeyOrderOK(res, l, r) ==
  /\ res.keys = l.keys \o RhsOnlyKeys(l, r)
  /\ \A k \in KeySet(l) \cap KeySet(r) :
       (IsMapping(TreeGet(l, k)) /\ IsMapping(TreeGet(r, k))) =>
         KeyOrderOK(TreeGet(res, k), TreeGet(l, k), TreeGet(r, k))

\* C5: the key order of a merged mapping is lhs's keys in lhs's order, then
\* the keys only rhs has in rhs's order, at every level.
C5_KeyOrder ==
  (Returned /\ IsMapping(ArgL) /\ IsMapping(ArgR)) =>
    KeyOrderOK(Result, ArgL, ArgR)

\* rhs lists a key of its own before a key it shares with lhs.
C5_Witness ==
  /\ Returned /\ IsMapping(ArgL) /\ IsMapping(ArgR)
  /\ \E i, j \in DOMAIN ArgR.keys :
       /\ i < j
       /\ ArgR.keys[i] \notin KeySet(ArgL)
       /\ ArgR.keys[j] \in KeySet(ArgL)

\* C6: a call of merge changes no object that existed before the call, so
\* lhs and rhs keep their values whether the call returns or fails, and a
\* returned mapping or sequence is a new object.
C6_ArgumentsUnchanged ==
  [][(pc = "call" /\ pc' = "done") =>
       /\ \A a \in DOMAIN heap : heap'[a] = heap[a]
       /\ Val(heap', lhs) = Val(heap, lhs)
       /\ Val(heap', rhs) = Val(heap, rhs)
       /\ (exc' = NoException /\ ~IsScalar(heap'[ret'])) =>
            ret' \notin DOMAIN heap]_vars

\* A merge of two mappings failed after its result had been started.
C6_Witness ==
  /\ Done /\ exc = InconsistentTypeError
  /\ IsMapping(ArgL) /\ IsMapping(ArgR)
  /\ Len(ArgL.keys) > 1

\* ------------------------------------------------------------------------
\* actions/merge.py: Merge.do
\* ------------------------------------------------------------------------

\* The documents make_many_raw loads: every document is an ordered mapping
\* (ConfigurationSchema is ordered) of fewer than MaxNodes nodes, and all
\* documents of a list have MaxNodes nodes at most together.
RECURSIVE DocumentsBySize(_)
DocumentsBySize(n) ==
  IF n = 0 THEN <<>>
  ELSE Append(DocumentsBySize(n - 1),
              {t \in TreeSizes[n] : t.type = "OrderedDict"})

Documents == DocumentsBySize(MaxNodes - 1)

\* The sequences of k sizes below MaxNodes that add up to n.
RECURSIVE Compositions(_, _)
Compositions(k, n) ==
  IF k = 0 THEN (IF n = 0 THEN {<<>>} ELSE {})
  ELSE UNION {{<<m>> \o rest : rest \in Compositions(k - 1, n - m)}
              : m \in 1..(MaxNodes - 1)}

\* The sizes of the documents of a list: MaxNodes nodes at most together.
DocumentSizes ==
  UNION {Compositions(k, n) : k \in 0..MaxNodes, n \in 0..MaxNodes}

\* The lists of documents of the given sizes.
RECURSIVE DocumentLists(_)
DocumentLists(sizes) ==
  IF sizes = <<>> THEN {<<>>}
  ELSE {<<t>> \o rest : t \in Documents[Head(sizes)],
                        rest \in DocumentLists(Tail(sizes))}

\* The state after Merge.__init__: the documents are loaded, in the order
\* of args.input_files.
InitDo ==
  \E sizes \in DocumentSizes : \E docs \in DocumentLists(sizes) :
    LET loaded == LoadAll(<<>>, docs, 1)
    IN  /\ pc = "do"
        /\ heap = loaded.heap
        /\ configuration = loaded.refs
        /\ config = 0
        /\ idx = 0
        /\ output_file = NotWritten
        /\ exc = NoException
        /\ NoMergeCall
        /\ NoGroup
        /\ NoDerivation
        /\ NoLookup
        /\ NoTune

\* reduce(utility.merge, self.configuration, collections.OrderedDict()):
\* the initializer is a new, empty ordered mapping.
ReduceStart ==
  /\ pc = "do"
  /\ LET initializer == NewMapping(heap, "OrderedDict")
     IN  /\ heap' = initializer.heap
         /\ config' = initializer.ret
  /\ idx' = 1
  /\ pc' = "reduce"
  /\ UNCHANGED <<exc, mergeVars, configuration, output_file, groupVars,
                 paramVars, lookupVars, tuneVars>>

\* Variant: function(element, accumulator).
ReduceCall_Swapped(h, accumulator, element) == merge(h, element, accumulator)

\* One step of reduce: function(accumulator, element).
ReduceCall(h, accumulator, element) == merge(h, accumulator, element)

\* reduce takes the next document; an exception of merge ends do().
ReduceStep ==
  /\ pc = "reduce"
  /\ idx <= Len(configuration)
  /\ LET m == ReduceCall(heap, config, configuration[idx])
     IN  /\ heap' = m.heap
         /\ exc' = m.exc
         /\ IF m.exc # NoException
            THEN pc' = "raised" /\ UNCHANGED <<config, idx>>
            ELSE pc' = "reduce" /\ config' = m.ret /\ idx' = idx + 1
  /\ UNCHANGED <<mergeVars, configuration, output_file, groupVars, paramVars,
                 lookupVars, tuneVars>>

\* open(self.args.output_file, "w").write(yaml.dump(config))
WriteOutput ==
  /\ pc = "reduce"
  /\ idx > Len(configuration)
  /\ output_file' = [written |-> TRUE, document |-> Val(heap, config)]
  /\ pc' = "written"
  /\ UNCHANGED <<heap, exc, mergeVars, configuration, config, idx, groupVars,
                 paramVars, lookupVars, tuneVars>>

NextDo == ReduceStart \/ ReduceStep \/ WriteOutput

SpecDo == InitDo /\ [][NextDo]_vars

\* The documents D1..DN as trees.
Document(i) == Val(heap, configuration[i])

\* merge(...merge(merge({}, D1), D2)..., Dn) on trees.
RECURSIVE LeftFold(_)
LeftFold(n) ==
  IF n = 0 THEN [exc |-> NoException, val |-> EmptyDict]
  ELSE LET inner == LeftFold(n - 1)
       IN  IF inner.exc # NoException THEN inner
           ELSE Outcome(inner.val, Document(n))

\* C7: Merge.do yields merge(...merge(merge({}, D1), D2)..., DN): it writes
\* that document when the nested merges succeed and fails with their
\* exception, writing nothing, when they do not; for no document it writes
\* the empty mapping, for one document it writes D1.
C7_LeftFold ==
  LET N == Len(configuration)
  IN  /\ pc = "written" =>
           /\ LeftFold(N) = [exc |-> NoException, val |-> Val(heap, config)]
           /\ output_file = [written |-> TRUE, document |-> LeftFold(N).val]
           /\ N = 0 => output_file.document = EmptyDict
           /\ N = 1 => output_file.document = Document(1)
      /\ pc = "raised" =>
           /\ LeftFold(N).exc = exc
           /\ exc = InconsistentTypeError
           /\ output_file = NotWritten

\* Three documents have been merged and the later ones changed the result.
C7_Witness ==
  /\ pc = "written"
  /\ Len(configuration) = 3
  /\ output_file.document # Document(1)
  /\ Outcome(Document(1), Document(2)).val # Document(2)
  /\ output_file.document # Outcome(Document(1), Document(2)).val

\* ------------------------------------------------------------------------
\* configuration.py: Disk.DeviceGroup.__init__ and Crypt.__init__
\* ------------------------------------------------------------------------

\* Greatest number of devices (crypt volumes) of a group.
MaxItems == 2

StrValue(v) == Scalar("str", v)

IntValue(v) == Scalar("int", v)

\* Stands for a field that a mapping does not have.
Absent == Scalar("absent", "")

\* The values the schema admits for a field, Absent for a field that the
\* mapping does not have.
\* disk: DiskSchema.DeviceGroupSchema.DeviceCommon
\* crypt: CryptSchema.VolumeCommon
CommonFields(kind) ==
  IF kind = "disk"
  THEN << [key |-> "randomize_source",
           values |-> {Absent, NoneValue, StrValue("/dev/random"),
                       StrValue("/dev/urandom")}],
          [key |-> "readahead_sectors",
           values |-> {Absent, IntValue("256"), IntValue("512")}] >>
  ELSE << [key |-> "cipher",
           values |-> {Absent, StrValue("aes-xts-plain64"),
                       StrValue("serpent-xts-plain64")}],
          [key |-> "key_size",
           values |-> {Absent, IntValue("256"), IntValue("512")}] >>

\* The field a device (crypt volume) must have besides the common ones.
RequiredField(kind) ==
  IF kind = "disk" THEN "path" ELSE "encrypted_path"

\* The ordered mapping the schema loads for one choice of field values.
RECURSIVE FieldsToTree(_, _, _)
FieldsToTree(fields, choice, i) ==
  IF i > Len(fields) THEN EmptyDict
  ELSE LET rest == FieldsToTree(fields, choice, i + 1)
       IN  IF choice[i] = Absent THEN rest
           ELSE DictTree(<<fields[i].key>> \o rest.keys,
                         <<choice[i]>> \o rest.kids)

FieldChoices(kind) ==
  {c \in [1..Len(CommonFields(kind)) ->
            UNION {CommonFields(kind)[i].values
                   : i \in 1..Len(CommonFields(kind))}] :
     \A i \in 1..Len(CommonFields(kind)) :
       c[i] \in CommonFields(kind)[i].values}

\* schema["defaults"]
DefaultsTrees(kind) ==
  {FieldsToTree(CommonFields(kind), c, 1) : c \in FieldChoices(kind)}

\* One element of schema["devices"] (schema["volumes"]).
ItemTrees(kind) ==
  {LET common == FieldsToTree(CommonFields(kind), c, 1)
   IN  DictTree(common.keys \o <<RequiredField(kind)>>,
                common.kids \o <<StrValue("/dev/sdx")>>)
   : c \in FieldChoices(kind)}

ItemLists(kind) ==
  UNION {[1..n -> ItemTrees(kind)] : n \in 0..MaxItems}

\* The group schema is loaded: its defaults and its list of items.
InitGroup ==
  \E kind \in {"disk", "crypt"} :
    \E d \in DefaultsTrees(kind) : \E its \in ItemLists(kind) :
      LET ld == Load(<<>>, d)
          li == LoadAll(ld.heap, its, 1)
      IN  /\ pc = "build"
          /\ heap = li.heap
          /\ defaults = ld.ret
          /\ items = li.refs
          /\ entities = <<>>
          /\ idx = 1
          /\ exc = NoException
          /\ NoMergeCall
          /\ NoMergeAction
          /\ NoDerivation
          /\ NoLookup
          /\ NoTune

\* Device(**kwargs) / Volume(**kwargs): self.__dict__.update(**kwargs) gives
\* the new object the keys of the mapping, bound to the same value objects.
NewEntity(h, kwargs) ==
  New(h, Cell("object", "", h[kwargs].keys, h[kwargs].refs))

\* One element of the list comprehension:
\* self.Device(**utility.merge(schema["defaults"], d)).
\* An exception of merge ends the constructor.
BuildEntity ==
  /\ pc = "build"
  /\ idx <= Len(items)
  /\ LET m == merge(heap, defaults, items[idx])
     IN  IF m.exc # NoException
         THEN /\ heap' = m.heap
              /\ exc' = m.exc
              /\ pc' = "raised"
              /\ UNCHANGED <<idx, entities>>
         ELSE LET e == NewEntity(m.heap, m.ret)
              IN  /\ heap' = e.heap
                  /\ entities' = Append(entities, e.ret)
                  /\ idx' = idx + 1
                  /\ UNCHANGED <<pc, exc>>
  /\ UNCHANGED <<defaults, items, mergeVars, doVars, paramVars, lookupVars,
                 tuneVars>>

\* The list is complete and becomes self.devices (self.volumes).
FinishGroup ==
  /\ pc = "build"
  /\ idx > Len(items)
  /\ pc' = "constructed"
  /\ UNCHANGED <<heap, exc, idx, mergeVars, doVars, groupVars, paramVars,
                 lookupVars, tuneVars>>

NextGroup == BuildEntity \/ FinishGroup

SpecGroup == InitGroup /\ [][NextGroup]_vars

\* The entity e carries the item's value for every key of the item and the
\* default for every other key of the defaults.
EntityCarries(e, dflt, item) ==
  /\ KeySet(e) = KeySet(dflt) \cup KeySet(item)
  /\ \A k \in KeySet(e) :
       TreeGet(e, k) = IF k \in KeySet(item) THEN TreeGet(item, k)
                       ELSE TreeGet(dflt, k)

\* C8: every item of a group yields an entity that carries the item's own
\* value for the keys the item specifies and the group default otherwise,
\* and building it leaves the defaults as they were.
C8_DefaultsThenOverrides ==
  [][(pc = "build" /\ idx <= Len(items)) =>
       /\ Len(entities') = idx
       /\ EntityCarries(Val(heap', entities'[idx]), Val(heap, defaults),
                        Val(heap, items[idx]))
       /\ Val(heap', defaults) = Val(heap, defaults)]_vars

\* ------------------------------------------------------------------------
\* parameters.py
\* ------------------------------------------------------------------------

\* Greatest number of disk devices passed to a derivation.
MaxDisks == 4

\* Greatest RAID level passed to a derivation (the least is -1).
MaxRaidLevel == 8

RaidLevels == (0 - 1)..MaxRaidLevel

InvalidRaidLevel == "InvalidRaidLevel"

\* Disk.DeviceGroup.Device objects, as far as the derivations read them.
Devices == [readahead_sectors : {256, 512}]

DeviceLists == UNION {[1..n -> Devices] : n \in 0..MaxDisks}

\* A derivation returns a value or raises.
Returns(v) == [value |-> v, exc |-> NoException]

Raises(e) == [value |-> PyNone, exc |-> e]

\* Variant: the branches of levels 5 and 6 are exchanged.
_num_data_disks_Swapped(devices, level) ==
  IF level = 0 THEN Returns(PyInt(Len(devices)))
  ELSE IF level = 1 THEN Returns(PyInt(1))
  ELSE IF level = 5 THEN Returns(PyInt(Len(devices) - 2))
  ELSE IF level = 6 THEN Returns(PyInt(Len(devices) - 1))
  ELSE Raises(InvalidRaidLevel)

_num_data_disks(devices, level) ==
  IF level = 0 THEN Returns(PyInt(Len(devices)))
  ELSE IF level = 1 THEN Returns(PyInt(1))
  ELSE IF level = 5 THEN Returns(PyInt(Len(devices) - 1))
  ELSE IF level = 6 THEN Returns(PyInt(Len(devices) - 2))
  ELSE Raises(InvalidRaidLevel)

\* Variant: an unknown level falls back to the chunk size of level 0.
raid_chunk_size_kb_Default(level) ==
  IF level = 1 THEN Returns(PyNone)
  ELSE IF level = 5 THEN Returns(PyInt(64))
  ELSE IF level = 6 THEN Returns(PyInt(64))
  ELSE Returns(PyInt(512))

raid_chunk_size_kb(level) ==
  IF level = 0 THEN Returns(PyInt(512))
  ELSE IF level = 1 THEN Returns(PyNone)
  ELSE IF level = 5 THEN Returns(PyInt(64))
  ELSE IF level = 6 THEN Returns(PyInt(64))
  ELSE Raises(InvalidRaidLevel)

\* Python exceptions raised by the derivations and by what they call.
TypeError == "TypeError"

ValueError == "ValueError"

ZeroDivisionError == "ZeroDivisionError"

CalledProcessError == "CalledProcessError"

BYTES_PER_SECTOR == 512

BYTES_PER_PAGE == 4096

\* A true division in the source; the quotient is the whole number 8.
SECTORS_PER_PAGE == BYTES_PER_PAGE \div BYTES_PER_SECTOR

\* int(a / b) for b # 0: the quotient, truncated toward zero.
IntTrueDiv(a, b) ==
  LET abs(x) == IF x < 0 THEN 0 - x ELSE x
      q == abs(a) \div abs(b)
  IN  IF (a < 0) # (b < 0) THEN 0 - q ELSE q

RECURSIVE _gcd(_, _)
_gcd(a, b) == IF b = 0 THEN a ELSE _gcd(b, a % b)

\* Variant: the product is not divided by the common divisor.
_lcm_Product(a, b) == a * b

_lcm(a, b) == (a * b) \div _gcd(a, b)

\* What a probe (hdparm -Q, blockdev --getbsz) gives for one device: it
\* exits with an error, prints a number, or (hdparm) prints no queue_depth
\* line.
Failed == [status |-> "failed", number |-> 0]

NoDepthLine == [status |-> "no line", number |-> 0]

Printed(n) == [status |-> "ok", number |-> n]

QueueDepths == {31, 32}

BlockSizes == {512, 3072, 4096}

HdparmOutputs == {Failed, NoDepthLine} \cup {Printed(d) : d \in QueueDepths}

BlockdevOutputs == {Failed} \cup {Printed(b) : b \in BlockSizes}

\* A list of numbers built while probing, or the exception that ended it.
Probed(l) == [list |-> l, exc |-> NoException]

ProbeRaises(e) == [list |-> <<>>, exc |-> e]

\* The loop of disk_ncq_depth: a device whose output has no queue_depth line
\* adds nothing to depths.
RECURSIVE ProbeDepths(_, _, _, _)
ProbeDepths(devices, outs, i, depths) ==
  IF i > Len(devices) THEN Probed(depths)
  ELSE IF outs[i].status = "failed" THEN ProbeRaises(CalledProcessError)
  ELSE IF outs[i].status = "ok"
       THEN ProbeDepths(devices, outs, i + 1, Append(depths, outs[i].number))
       ELSE ProbeDepths(devices, outs, i + 1, depths)

\* min(depths) of a non-empty list.
min(depths) ==
  CHOOSE m \in Range(depths) : \A x \in Range(depths) : m <= x

\* Variant: the first depth found is returned.
disk_ncq_depth_First(devices, outs) ==
  LET p == ProbeDepths(devices, outs, 1, <<>>)
  IN  IF p.exc # NoException THEN Raises(p.exc)
      ELSE IF p.list = <<>> THEN Raises(ValueError)
      ELSE Returns(PyInt(p.list[1]))

\* Variant: no depth found gives depth 0.
disk_ncq_depth_ZeroOnEmpty(devices, outs) ==
  LET p == ProbeDepths(devices, outs, 1, <<>>)
  IN  IF p.exc # NoException THEN Raises(p.exc)
      ELSE IF p.list = <<>> THEN Returns(PyInt(0))
      ELSE Returns(PyInt(min(p.list)))

disk_ncq_depth(devices, outs) ==
  LET p == ProbeDepths(devices, outs, 1, <<>>)
  IN  IF p.exc # NoException THEN Raises(p.exc)
      ELSE IF p.list = <<>> THEN Raises(ValueError)
      ELSE Returns(PyInt(min(p.list)))

\* sum(d.readahead_sectors for d in disk_devices)
RECURSIVE sum_readahead_sectors(_, _)
sum_readahead_sectors(devices, i) ==
  IF i > Len(devices) THEN 0
  ELSE devices[i].readahead_sectors + sum_readahead_sectors(devices, i + 1)

\* Variant: the readahead of the first device stands for the volume.
raid_readahead_sectors_First(devices) ==
  Returns(PyInt(IF devices = <<>> THEN 0 ELSE devices[1].readahead_sectors))

raid_readahead_sectors(devices) ==
  Returns(PyInt(sum_readahead_sectors(devices, 1)))

\* Variant: the sum is not averaged over the devices.
raid_stripe_cache_pages_NoAverage(devices) ==
  IF Len(devices) = 0 THEN Raises(ZeroDivisionError)
  ELSE Returns(PyInt(IntTrueDiv(sum_readahead_sectors(devices, 1),
                                SECTORS_PER_PAGE)))

\* The two true divisions, by len(disk_devices) and by SECTORS_PER_PAGE, are
\* one division by their product; int() truncates it.
raid_stripe_cache_pages(devices) ==
  IF Len(devices) = 0 THEN Raises(ZeroDivisionError)
  ELSE Returns(PyInt(IntTrueDiv(sum_readahead_sectors(devices, 1),
                                Len(devices) * SECTORS_PER_PAGE)))

\* The list comprehension of fs_block_size_kb.
RECURSIVE ProbeBlockSizes(_, _, _, _)
ProbeBlockSizes(devices, outs, i, block_sizes) ==
  IF i > Len(devices) THEN Probed(block_sizes)
  ELSE IF outs[i].status = "failed" THEN ProbeRaises(CalledProcessError)
  ELSE ProbeBlockSizes(devices, outs, i + 1,
                       Append(block_sizes, outs[i].number))

\* reduce(_lcm, block_sizes) of a non-empty list, from its i-th member on.
RECURSIVE reduce_lcm(_, _, _)
reduce_lcm(block_sizes, i, accumulator) ==
  IF i > Len(block_sizes) THEN accumulator
  ELSE reduce_lcm(block_sizes, i + 1, _lcm(accumulator, block_sizes[i]))

\* reduce() of an empty list without an initial value is a TypeError.
fs_block_size_kb(devices, outs) ==
  LET p == ProbeBlockSizes(devices, outs, 1, <<>>)
  IN  IF p.exc # NoException THEN Raises(p.exc)
      ELSE IF p.list = <<>> THEN Raises(TypeError)
      ELSE Returns(PyInt(IntTrueDiv(reduce_lcm(p.list, 2, p.list[1]), 1024)))

\* Variant: the operands of the division are exchanged.
fs_stride_Swapped(devices, outs, level) ==
  LET chunk == raid_chunk_size_kb(level)
      block == fs_block_size_kb(devices, outs)
  IN  IF chunk.exc # NoException THEN Raises(chunk.exc)
      ELSE IF block.exc # NoException THEN Raises(block.exc)
      ELSE IF chunk.value = PyNone THEN Raises(TypeError)
      ELSE IF block.value.num = 0 THEN Raises(ZeroDivisionError)
      ELSE Returns(PyInt(IntTrueDiv(block.value.num, chunk.value.num)))

\* Variant: the block sizes are probed before the level is looked at.
fs_stride_ProbeFirst(devices, outs, level) ==
  LET chunk == raid_chunk_size_kb(level)
      block == fs_block_size_kb(devices, outs)
  IN  IF block.exc # NoException THEN Raises(block.exc)
      ELSE IF chunk.exc # NoException THEN Raises(chunk.exc)
      ELSE IF chunk.value = PyNone THEN Raises(TypeError)
      ELSE IF block.value.num = 0 THEN Raises(ZeroDivisionError)
      ELSE Returns(PyInt(IntTrueDiv(chunk.value.num, block.value.num)))

\* The operands are evaluated from left to right, then divided: None / int
\* is a TypeError, int / 0 a ZeroDivisionError.
fs_stride(devices, outs, level) ==
  LET chunk == raid_chunk_size_kb(level)
      block == fs_block_size_kb(devices, outs)
  IN  IF chunk.exc # NoException THEN Raises(chunk.exc)
      ELSE IF block.exc # NoException THEN Raises(block.exc)
      ELSE IF chunk.value = PyNone THEN Raises(TypeError)
      ELSE IF block.value.num = 0 THEN Raises(ZeroDivisionError)
      ELSE Returns(PyInt(IntTrueDiv(chunk.value.num, block.value.num)))

\* Variant: every member disk counts as a data disk.
fs_stripe_width_AllDisks(devices, outs, level) ==
  LET num_data_disks == _num_data_disks(devices, level)
      stride == fs_stride(devices, outs, level)
  IN  IF num_data_disks.exc # NoException THEN Raises(num_data_disks.exc)
      ELSE IF stride.exc # NoException THEN Raises(stride.exc)
      ELSE Returns(PyInt(stride.value.num * Len(devices)))

fs_stripe_width(devices, outs, level) ==
  LET num_data_disks == _num_data_disks(devices, level)
      stride == fs_stride(devices, outs, level)
  IN  IF num_data_disks.exc # NoException THEN Raises(num_data_disks.exc)
      ELSE IF stride.exc # NoException THEN Raises(stride.exc)
      ELSE Returns(PyInt(stride.value.num * num_data_disks.value.num))

\* A caller is about to pass a device list and a RAID level.
InitParameters ==
  /\ pc = "call"
  /\ disk_devices \in DeviceLists
  /\ raid_level \in RaidLevels
  /\ callee = ""
  /\ value = PyNone
  /\ outputs = <<>>
  /\ exc = NoException
  /\ heap = <<>>
  /\ idx = 0
  /\ NoMergeCall
  /\ NoMergeAction
  /\ NoGroup
  /\ NoLookup
  /\ NoTune

\* The call of derivation f, whose probe printed outs, ends with outcome r.
DeriveWith(f, outs, r) ==
  /\ pc = "call"
  /\ callee' = f
  /\ outputs' = outs
  /\ value' = r.value
  /\ exc' = r.exc
  /\ pc' = IF r.exc = NoException THEN "returned" ELSE "raised"
  /\ UNCHANGED <<heap, idx, disk_devices, raid_level, mergeVars, doVars,
                 groupVars, lookupVars, tuneVars>>

\* The call of a derivation that probes nothing.
Derive(f, r) == DeriveWith(f, <<>>, r)

Call_num_data_disks ==
  Derive("_num_data_disks", _num_data_disks(disk_devices, raid_level))

Call_raid_chunk_size_kb ==
  Derive("raid_chunk_size_kb", raid_chunk_size_kb(raid_level))

Call_disk_ncq_depth ==
  /\ pc = "call"
  /\ \E outs \in [1..Len(disk_devices) -> HdparmOutputs] :
       DeriveWith("disk_ncq_depth", outs, disk_ncq_depth(disk_devices, outs))

Call_raid_readahead_sectors ==
  Derive("raid_readahead_sectors", raid_readahead_sectors(disk_devices))

Call_raid_stripe_cache_pages ==
  Derive("raid_stripe_cache_pages", raid_stripe_cache_pages(disk_devices))

Call_fs_block_size_kb ==
  /\ pc = "call"
  /\ \E outs \in [1..Len(disk_devices) -> BlockdevOutputs] :
       DeriveWith("fs_block_size_kb", outs, fs_block_size_kb(disk_devices, outs))

Call_fs_stride ==
  /\ pc = "call"
  /\ \E outs \in [1..Len(disk_devices) -> BlockdevOutputs] :
       DeriveWith("fs_stride", outs, fs_stride(disk_devices, outs, raid_level))

Call_fs_stripe_width ==
  /\ pc = "call"
  /\ \E outs \in [1..Len(disk_devices) -> BlockdevOutputs] :
       DeriveWith("fs_stripe_width", outs,
                  fs_stripe_width(disk_devices, outs, raid_level))

NextParameters ==
  \/ Call_num_data_disks
  \/ Call_raid_chunk_size_kb
  \/ Call_disk_ncq_depth
  \/ Call_raid_readahead_sectors
  \/ Call_raid_stripe_cache_pages
  \/ Call_fs_block_size_kb
  \/ Call_fs_stride
  \/ Call_fs_stripe_width

SpecParameters == InitParameters /\ [][NextParameters]_vars

Called(f) == callee = f /\ pc \in {"returned", "raised"}

\* C9: for n member disks the data-disk count is n at level 0, 1 at level 1,
\* n-1 at level 5 and n-2 at level 6; at any other level the function fails
\* with InvalidRaidLevel and returns no number.
C9_NumDataDisks ==
  Called("_num_data_disks") =>
    LET n == Len(disk_devices)
    IN  /\ raid_level = 0 => (pc = "returned" /\ value = PyInt(n))
        /\ raid_level = 1 => (pc = "returned" /\ value = PyInt(1))
        /\ raid_level = 5 => (pc = "returned" /\ value = PyInt(n - 1))
        /\ raid_level = 6 => (pc = "returned" /\ value = PyInt(n - 2))
        /\ raid_level \notin {0, 1, 5, 6} =>
             (pc = "raised" /\ exc = InvalidRaidLevel /\ value = PyNone)

\* Four disks at level 6 have two data disks.
C9_Witness ==
  /\ Called("_num_data_disks")
  /\ Len(disk_devices) = 4 /\ raid_level = 6
  /\ value = PyInt(2)

\* C10: the chunk size is 512 KB at level 0, 64 KB at levels 5 and 6, none
\* at level 1; at any other level the function fails with InvalidRaidLevel
\* and substitutes no default.
C10_RaidChunkSize ==
  Called("raid_chunk_size_kb") =>
    /\ raid_level = 0 => (pc = "returned" /\ value = PyInt(512))
    /\ raid_level = 5 => (pc = "returned" /\ value = PyInt(64))
    /\ raid_level = 6 => (pc = "returned" /\ value = PyInt(64))
    /\ raid_level = 1 => (pc = "returned" /\ value = PyNone)
    /\ raid_level \notin {0, 1, 5, 6} =>
         (pc = "raised" /\ exc = InvalidRaidLevel /\ value = PyNone)

\* An unsupported level has been rejected.
C10_Witness ==
  /\ Called("raid_chunk_size_kb")
  /\ raid_level \notin {0, 1, 5, 6}
  /\ pc = "raised"

\* Every device of the call was probed and a number was read for it.
AllPrinted ==
  /\ Len(outputs) = Len(disk_devices)
  /\ \A i \in 1..Len(outputs) : outputs[i].status = "ok"

\* The numbers the probe printed.
PrintedNumbers ==
  {outputs[i].number : i \in {j \in 1..Len(outputs) : outputs[j].status = "ok"}}

\* v = floor(a / b) for b > 0.
IsFloorOfQuotient(v, a, b) == v * b <= a /\ a < (v + 1) * b

\* C11: for every level in {0, 1, 5, 6} and every non-empty device list whose
\* measured block sizes are positive multiples of 1024, fs_stride and
\* fs_stripe_width return an integer; they do not fail at level 1.
C11_StrideTotalOnSupportedLevels ==
  ( /\ Called("fs_stride") \/ Called("fs_stripe_width")
    /\ raid_level \in {0, 1, 5, 6}
    /\ disk_devices # <<>>
    /\ AllPrinted
    /\ \A b \in PrintedNumbers : b > 0 /\ b % 1024 = 0 )
  => (pc = "returned" /\ value.type = "int")

RECURSIVE TotalReadahead(_, _)
TotalReadahead(devices, i) ==
  IF i = 0 THEN 0
  ELSE TotalReadahead(devices, i - 1) + devices[i].readahead_sectors

\* C15: for a non-empty list with non-negative readahead values,
\* raid_stripe_cache_pages is floor(average(readahead_sectors) / 8).
C15_StripeCachePages ==
  ( /\ Called("raid_stripe_cache_pages")
    /\ disk_devices # <<>>
    /\ \A i \in 1..Len(disk_devices) :
         disk_devices[i].readahead_sectors >= 0 )
  => /\ pc = "returned"
     /\ value.type = "int"
     /\ IsFloorOfQuotient(value.num,
                          TotalReadahead(disk_devices, Len(disk_devices)),
                          8 * Len(disk_devices))

\* Four devices at 256 sectors give 32 pages.
C15_Witness ==
  /\ Called("raid_stripe_cache_pages")
  /\ disk_devices = [i \in 1..4 |-> [readahead_sectors |-> 256]]
  /\ value = PyInt(32)

\* C16: fs_stride is floor(raid_chunk_size_kb(raid_level) /
\* fs_block_size_kb(devices)) whenever the chunk size is a number and the
\* block size is at least 1 KB.
C16_Stride ==
  Called("fs_stride") =>
    LET chunk == raid_chunk_size_kb(raid_level)
        block == fs_block_size_kb(disk_devices, outputs)
    IN  /\ ( /\ chunk.exc = NoException /\ chunk.value.type = "int"
             /\ block.exc = NoException /\ block.value.num > 0 )
           => /\ pc = "returned"
              /\ value.type = "int"
              /\ IsFloorOfQuotient(value.num, chunk.value.num,
                                   block.value.num)
        /\ pc = "returned" =>
             (chunk.value.type = "int" /\ block.value.num > 0)

\* Level 5 (64 KB chunk) with 4 KB blocks gives 16.
C16_Witness ==
  /\ Called("fs_stride")
  /\ raid_level = 5
  /\ disk_devices # <<>>
  /\ AllPrinted /\ PrintedNumbers = {4096}
  /\ value = PyInt(16)

\* C17: fs_stripe_width is fs_stride multiplied by the data-disk count of
\* len(devices) disks at the level, whenever both are defined.
C17_StripeWidth ==
  Called("fs_stripe_width") =>
    LET stride == fs_stride(disk_devices, outputs, raid_level)
        count == _num_data_disks(disk_devices, raid_level)
    IN  /\ (stride.exc = NoException /\ count.exc = NoException)
           => /\ pc = "returned"
              /\ value = PyInt(stride.value.num * count.value.num)
        /\ pc = "returned" =>
             (stride.exc = NoException /\ count.exc = NoException)

\* Stride 16 with 4 disks at level 5 gives 48.
C17_Witness ==
  /\ Called("fs_stripe_width")
  /\ raid_level = 5 /\ Len(disk_devices) = 4
  /\ AllPrinted /\ PrintedNumbers = {4096}
  /\ value = PyInt(48)

\* m is the least positive number that every member of S divides.  A common
\* multiple is a multiple of the greatest member g, so it is enough to look
\* at the multiples of g below m.
IsLeastCommonMultiple(m, S) ==
  LET g == CHOOSE x \in S : \A y \in S : y <= x
  IN  /\ m > 0
      /\ \A b \in S : m % b = 0
      /\ \A k \in 1..((m \div g) - 1) : \E b \in S : (k * g) % b # 0

\* C18: fs_block_size_kb is the least common multiple of the measured block
\* sizes divided by 1024 (an integer number of KB); for block sizes that are
\* multiples of 1024 it is positive and a multiple of every device's block
\* size in KB.
C18_BlockSizeIsLcm ==
  (Called("fs_block_size_kb") /\ disk_devices # <<>> /\ AllPrinted) =>
    /\ pc = "returned"
    /\ value.type = "int"
    /\ \E k \in 1..Cardinality(BlockSizes) :
         LET m == k * (CHOOSE x \in PrintedNumbers :
                         \A y \in PrintedNumbers : y <= x)
         IN  /\ IsLeastCommonMultiple(m, PrintedNumbers)
             /\ IsFloorOfQuotient(value.num, m, 1024)
             /\ (\A b \in PrintedNumbers : b % 1024 = 0) =>
                  /\ value.num > 0
                  /\ value.num * 1024 = m
                  /\ \A b \in PrintedNumbers :
                       value.num % (b \div 1024) = 0

\* Block sizes 3072 and 4096 give 12 KB.
C18_Witness ==
  /\ Called("fs_block_size_kb")
  /\ AllPrinted /\ PrintedNumbers = {3072, 4096}
  /\ value = PyInt(12)

\* C19: raid_readahead_sectors is the sum of the readahead_sectors of all
\* devices of the list.
C19_ReadaheadIsSum ==
  Called("raid_readahead_sectors") =>
    /\ pc = "returned"
    /\ value = PyInt(TotalReadahead(disk_devices, Len(disk_devices)))

\* Four devices at 256 give 1024.
C19_Witness ==
  /\ Called("raid_readahead_sectors")
  /\ disk_devices = [i \in 1..4 |-> [readahead_sectors |-> 256]]
  /\ value = PyInt(1024)

\* C20: with an empty device list raid_stripe_cache_pages and disk_ncq_depth
\* fail with an error and return no value.
C20_EmptyListFails ==
  ( /\ Called("raid_stripe_cache_pages") \/ Called("disk_ncq_depth")
    /\ disk_devices = <<>> )
  => (pc = "raised" /\ exc # NoException /\ value = PyNone)

\* The minimum of no depths has been refused.
C20_Witness ==
  /\ Called("disk_ncq_depth")
  /\ disk_devices = <<>>
  /\ pc = "raised" /\ exc = ValueError

\* ------------------------------------------------------------------------
\* configuration.py: Configuration and its lookups by volume name
\* ------------------------------------------------------------------------

\* Greatest number of device groups of a configuration.
MaxGroups == 2

VolumeNames == {"a", "b"}

DevicePaths == {"/dev/sda", "/dev/sdb"}

UnknownRaidVolume == "UnknownRaidVolume"

UnknownCryptVolume == "UnknownCryptVolume"

UnknownFsVolume == "UnknownFsVolume"

\* A list of no or one member of S.
AtMostOne(S) == {<<>>} \cup {<<x>> : x \in S}

\* Disk.DeviceGroup: the two volume names and the devices built from the
\* schema.
DeviceGroups ==
  [raid_volume : VolumeNames,
   fs_volume : VolumeNames,
   devices : AtMostOne([path : DevicePaths, readahead_sectors : {256}])]

\* Raid.Volume
RaidVolumes(levels) == [name : VolumeNames, raid_level : levels]

\* Crypt.Volume
CryptVolumes == [decrypted_name : VolumeNames]

\* Fs.Volume
FsVolumes == [name : VolumeNames]

\* Configuration objects, as far as the lookups and the tune action read
\* them, for the given RAID levels and lists of crypt volumes.
Configurations(levels, crypt_volumes) ==
  [disk : [device_groups :
             UNION {[1..n -> DeviceGroups] : n \in 0..MaxGroups}],
   raid : [volumes : AtMostOne(RaidVolumes(levels))],
   crypt : [volumes : crypt_volumes],
   fs : [volumes : AtMostOne(FsVolumes)]]

\* A lookup returns entities or raises.
Found(what) == [found |-> what, exc |-> NoException]

LookupRaises(e) == [found |-> <<>>, exc |-> e]

\* for x in list: if <x matches>: return x -- and the raise after the loop;
\* hits are the positions of the members that match.
ReturnFirst(list, hits, error) ==
  IF hits = {} THEN LookupRaises(error)
  ELSE Found(<<list[CHOOSE i \in hits : \A j \in hits : i <= j]>>)

find_raid_volume(self, raid_volume_name) ==
  ReturnFirst(self.raid.volumes,
              {i \in 1..Len(self.raid.volumes) :
                 self.raid.volumes[i].name = raid_volume_name},
              UnknownRaidVolume)

find_crypt_volume(self, crypt_volume_name) ==
  ReturnFirst(self.crypt.volumes,
              {i \in 1..Len(self.crypt.volumes) :
                 self.crypt.volumes[i].decrypted_name = crypt_volume_name},
              UnknownCryptVolume)

find_fs_volume(self, fs_volume_name) ==
  ReturnFirst(self.fs.volumes,
              {i \in 1..Len(self.fs.volumes) :
                 self.fs.volumes[i].name = fs_volume_name},
              UnknownFsVolume)

find_disk_device_group_with_raid_volume(self, raid_volume_name) ==
  ReturnFirst(self.disk.device_groups,
              {i \in 1..Len(self.disk.device_groups) :
                 self.disk.device_groups[i].raid_volume = raid_volume_name},
              UnknownRaidVolume)

find_disk_device_group_with_fs_volume(self, fs_volume_name) ==
  ReturnFirst(self.disk.device_groups,
              {i \in 1..Len(self.disk.device_groups) :
                 self.disk.device_groups[i].fs_volume = fs_volume_name},
              UnknownFsVolume)

\* sum((dg.devices for dg in device_groups), [])
RECURSIVE sum_devices(_, _)
sum_devices(device_groups, i) ==
  IF i > Len(device_groups) THEN <<>>
  ELSE device_groups[i].devices \o sum_devices(device_groups, i + 1)

find_disk_devices_with_raid_volume(self, raid_volume_name) ==
  LET Matches(dg) == dg.raid_volume = raid_volume_name
      device_groups == SelectSeq(self.disk.device_groups, Matches)
  IN  Found(sum_devices(device_groups, 1))

find_disk_devices_with_fs_volume(self, fs_volume_name) ==
  LET Matches(dg) == dg.fs_volume = fs_volume_name
      device_groups == SelectSeq(self.disk.device_groups, Matches)
  IN  Found(sum_devices(device_groups, 1))

\* A caller holds a configuration and is about to look a name up.
InitLookup ==
  \E c \in Configurations({5}, AtMostOne(CryptVolumes)) :
    /\ pc = "call"
    /\ configuration = c
    /\ config = 0
    /\ output_file = NotWritten
    /\ exc = NoException
    /\ heap = <<>>
    /\ idx = 0
    /\ NoMergeCall
    /\ NoGroup
    /\ NoDerivation
    /\ NoLookup
    /\ NoTune

\* The call of lookup f for name ends with outcome r.
Lookup(f, name, r) ==
  /\ callee' = f
  /\ volume_name' = name
  /\ found' = r.found
  /\ exc' = r.exc
  /\ pc' = IF r.exc = NoException THEN "returned" ELSE "raised"
  /\ UNCHANGED <<heap, idx, disk_devices, raid_level, value, outputs,
                 mergeVars, doVars, groupVars, tuneVars>>

Call_find_raid_volume ==
  /\ pc = "call"
  /\ \E name \in VolumeNames :
       Lookup("find_raid_volume", name,
              find_raid_volume(configuration, name))

Call_find_crypt_volume ==
  /\ pc = "call"
  /\ \E name \in VolumeNames :
       Lookup("find_crypt_volume", name,
              find_crypt_volume(configuration, name))

Call_find_fs_volume ==
  /\ pc = "call"
  /\ \E name \in VolumeNames :
       Lookup("find_fs_volume", name, find_fs_volume(configuration, name))

Call_find_disk_device_group_with_raid_volume ==
  /\ pc = "call"
  /\ \E name \in VolumeNames :
       Lookup("find_disk_device_group_with_raid_volume", name,
              find_disk_device_group_with_raid_volume(configuration, name))

Call_find_disk_device_group_with_fs_volume ==
  /\ pc = "call"
  /\ \E name \in VolumeNames :
       Lookup("find_disk_device_group_with_fs_volume", name,
              find_disk_device_group_with_fs_volume(configuration, name))

Call_find_disk_devices_with_raid_volume ==
  /\ pc = "call"
  /\ \E name \in VolumeNames :
       Lookup("find_disk_devices_with_raid_volume", name,
              find_disk_devices_with_raid_volume(configuration, name))

Call_find_disk_devices_with_fs_volume ==
  /\ pc = "call"
  /\ \E name \in VolumeNames :
       Lookup("find_disk_devices_with_fs_volume", name,
              find_disk_devices_with_fs_volume(configuration, name))

NextLookup ==
  \/ Call_find_raid_volume
  \/ Call_find_crypt_volume
  \/ Call_find_fs_volume
  \/ Call_find_disk_device_group_with_raid_volume
  \/ Call_find_disk_device_group_with_fs_volume
  \/ Call_find_disk_devices_with_raid_volume
  \/ Call_find_disk_devices_with_fs_volume

SpecLookup == InitLookup /\ [][NextLookup]_vars

\* The entities of the configuration that the lookup f associates with the
\* name, and the error f has for a name that resolves to nothing.
GroupsWith(field, name) ==
  {configuration.disk.device_groups[i] :
     i \in {j \in 1..Len(configuration.disk.device_groups) :
              configuration.disk.device_groups[j][field] = name}}

Associated(f, name) ==
  CASE f = "find_raid_volume" ->
         {v \in Range(configuration.raid.volumes) : v.name = name}
    [] f = "find_crypt_volume" ->
         {v \in Range(configuration.crypt.volumes) : v.decrypted_name = name}
    [] f = "find_fs_volume" ->
         {v \in Range(configuration.fs.volumes) : v.name = name}
    [] f = "find_disk_device_group_with_raid_volume" ->
         GroupsWith("raid_volume", name)
    [] f = "find_disk_device_group_with_fs_volume" ->
         GroupsWith("fs_volume", name)
    [] f = "find_disk_devices_with_raid_volume" ->
         UNION {Range(dg.devices) : dg \in GroupsWith("raid_volume", name)}
    [] f = "find_disk_devices_with_fs_volume" ->
         UNION {Range(dg.devices) : dg \in GroupsWith("fs_volume", name)}

\* The name names a volume or a device group of the configuration.
Resolves(f, name) ==
  CASE f = "find_disk_devices_with_raid_volume" ->
         GroupsWith("raid_volume", name) # {}
    [] f = "find_disk_devices_with_fs_volume" ->
         GroupsWith("fs_volume", name) # {}
    [] OTHER -> Associated(f, name) # {}

MatchingError(f) ==
  CASE f \in {"find_raid_volume", "find_disk_device_group_with_raid_volume",
              "find_disk_devices_with_raid_volume"} -> UnknownRaidVolume
    [] f \in {"find_fs_volume", "find_disk_device_group_with_fs_volume",
              "find_disk_devices_with_fs_volume"} -> UnknownFsVolume
    [] f = "find_crypt_volume" -> UnknownCryptVolume

Lookups ==
  {"find_raid_volume", "find_crypt_volume", "find_fs_volume",
   "find_disk_device_group_with_raid_volume",
   "find_disk_device_group_with_fs_volume",
   "find_disk_devices_with_raid_volume",
   "find_disk_devices_with_fs_volume"}

\* C13: every lookup by volume name returns only entities associated with
\* exactly that name or fails with the matching Unknown* error; for a name
\* that resolves to nothing it fails and returns no normal (empty) result.
C13_LookupsResolveOrFail ==
  (callee \in Lookups /\ pc \in {"returned", "raised"}) =>
    /\ pc = "returned" => Range(found) \subseteq Associated(callee, volume_name)
    /\ pc = "raised" => exc = MatchingError(callee)
    /\ ~Resolves(callee, volume_name) => pc = "raised"

\* The same without the device-list lookups: the five lookups of one entity
\* return an entity of that name or fail with the matching error.
SingleEntityLookupsResolveOrFail ==
  ( /\ callee \in Lookups \ {"find_disk_devices_with_raid_volume",
                             "find_disk_devices_with_fs_volume"}
    /\ pc \in {"returned", "raised"} )
  => /\ pc = "returned" =>
          (Len(found) = 1 /\ found[1] \in Associated(callee, volume_name))
     /\ pc = "raised" =>
          (exc = MatchingError(callee) /\ ~Resolves(callee, volume_name))

\* ------------------------------------------------------------------------
\* actions/tune.py: Tune.do, with executor.py
\* ------------------------------------------------------------------------

NameError == "NameError"

\* The value of a property of a device or a volume, or the exception that
\* reading it raises.
PropertyValue(v) == [str |-> v, exc |-> NoException]

PropertyRaises(e) == [str |-> "", exc |-> e]

\* Disk.DeviceGroup.Device.basename is os.path.basename(self.path), and
\* configuration.py does not import os: reading it raises NameError.
basename(self) == PropertyRaises(NameError)

\* The three control files of a device are named after its basename.
max_sectors_kb_file(self) == basename(self)

nr_requests_file(self) == basename(self)

queue_depth_file(self) == basename(self)

\* Raid.Volume.label_path is os.path.join("/dev", self.label).
label_path(self) == PropertyRaises(NameError)

\* Raid.Volume.stripe_cache_size_file is formatted from the label; the name
\* of the volume stands for its label.
stripe_cache_size_file(self) == PropertyValue(self.name)

\* One call of the executor with its evaluated arguments: what it does, on
\* which path, or the exception raised while its arguments were evaluated.
Step(op, what, on) == [op |-> op, what |-> what, on |-> on.str, exc |-> on.exc]

\* Executor.info: logs the message and returns it as a comment line.
info(message) == Step("info", message, PropertyValue(""))

\* Executor.run: check_call of the command unless dryrun.
run(command, on) == Step("run", command, on)

\* Executor.write: prints the content to the file unless dryrun.
write(file, on) == Step("write", file, on)

OSError == "OSError"

\* What a call that reaches the system raises when it fails there:
\* subprocess.check_call on a command that exits non-zero, open() on a file
\* that cannot be opened.
Failure(op) ==
  IF op \in {"run", "check_output"} THEN CalledProcessError ELSE OSError

\* A call that reaches the system: run and write unless dryrun, and a
\* probe by subprocess.check_output, which asks for no dryrun.
Reaches(call, dry) ==
  \/ call.op = "check_output"
  \/ ~dry /\ call.op \in {"run", "write"}

\* The calls of a list that can fail on the system (0: none does).
FailPoints(steps, dry) ==
  {0} \cup {i \in 1..Len(steps) : Reaches(steps[i], dry)}

\* Execute going on after a call that failed.
RECURSIVE Execute_IgnoreErrors(_, _, _)
Execute_IgnoreErrors(steps, i, fail) ==
  IF i > Len(steps)
  THEN [made |-> <<>>, failed |-> <<>>, exc |-> NoException]
  ELSE LET rest == Execute_IgnoreErrors(steps, i + 1, fail)
           call == IF i = fail \/ steps[i].exc # NoException
                   THEN [steps[i] EXCEPT !.exc = Failure(steps[i].op)]
                   ELSE steps[i]
       IN  [made |-> <<call>> \o rest.made, failed |-> <<>>,
            exc |-> NoException]

\* The calls of a list are made in turn until an exception is raised: the
\* calls that returned, the call that failed on the system, and the
\* exception.  A call whose arguments raise is not made.
RECURSIVE Execute(_, _, _)
Execute(steps, i, fail) ==
  IF i > Len(steps)
  THEN [made |-> <<>>, failed |-> <<>>, exc |-> NoException]
  ELSE IF steps[i].exc # NoException
  THEN [made |-> <<>>, failed |-> <<>>, exc |-> steps[i].exc]
  ELSE IF i = fail
  THEN [made |-> <<>>,
        failed |-> <<[steps[i] EXCEPT !.exc = Failure(steps[i].op)]>>,
        exc |-> Failure(steps[i].op)]
  ELSE LET rest == Execute(steps, i + 1, fail)
       IN  [made |-> <<steps[i]>> \o rest.made, failed |-> rest.failed,
            exc |-> rest.exc]

\* What the calls made have done on the system: run and write nothing if
\* dryrun, and info never anything.
Effects(made, dry) == SelectSeq(made, LAMBDA c : Reaches(c, dry))

\* Tune._tune_disk_device
_tune_disk_device(device) ==
  << info("Tuning disk device"),
     run("blockdev --setra", PropertyValue(device.path)),
     write("max_sectors_kb", max_sectors_kb_file(device)),
     write("nr_requests", nr_requests_file(device)),
     write("queue_depth", queue_depth_file(device)) >>

\* for device in device_group.devices: self._tune_disk_device(...)
RECURSIVE _tune_disk_devices(_, _)
_tune_disk_devices(devices, i) ==
  IF i > Len(devices) THEN <<>>
  ELSE _tune_disk_device(devices[i]) \o _tune_disk_devices(devices, i + 1)

\* Tune._tune_fs_volume: the log line, then tune2fs on the volume; the
\* lookups and derivations are evaluated as arguments of executor.run.
_tune_fs_volume(volume, arguments) ==
  << info("Tuning FS volume"), run("tune2fs -E", arguments) >>

\* The same calls with the file written before it is copied.
_tune_persist_WriteFirst ==
  << info("Persisting tuning parameters"),
     write("rc_file", PropertyValue("/etc/rc.local")),
     run("cp", PropertyValue("/etc/rc.local")) >>

\* Tune._tune_persist: the log line, the backup copy of /etc/rc.local, the
\* write of /etc/rc.local.
_tune_persist ==
  << info("Persisting tuning parameters"),
     run("cp", PropertyValue("/etc/rc.local")),
     write("rc_file", PropertyValue("/etc/rc.local")) >>

\* The last line of the script.
exit_0 == [op |-> "line", what |-> "exit 0", on |-> "", exc |-> NoException]

\* Tune is constructed: the configuration is loaded, nothing is executed.
InitTune ==
  \E c \in Configurations({0, 1, 5, 6}, {<<>>}) :
    /\ pc = "do"
    /\ configuration = c
    /\ config = 0
    /\ output_file = NotWritten
    /\ dryrun \in BOOLEAN
    /\ rc_commands = <<>>
    /\ executed = <<>>
    /\ issued = <<>>
    /\ rc_file_contents = <<>>
    /\ NoManage
    /\ exc = NoException
    /\ heap = <<>>
    /\ idx = 0
    /\ NoMergeCall
    /\ NoGroup
    /\ NoDerivation
    /\ NoLookup

\* An exception leaves do(): nothing catches it.
TuneRaises(e) ==
  /\ pc' = "raised"
  /\ exc' = e
  /\ UNCHANGED <<idx, rc_commands, executed, issued>>

\* The executor calls of one part of do() are made, as far as they get, and
\* what they return is collected for the script if that part of do() keeps
\* it; if all are made, do() goes on at next_pc with index next_idx.
TuneExecutes(steps, collected, next_pc, next_idx) ==
  \E fail \in FailPoints(steps, dryrun) :
    LET e == Execute(steps, 1, fail)
    IN  /\ issued' = issued \o e.made \o e.failed
        /\ executed' = executed \o Effects(e.made \o e.failed, dryrun)
        /\ rc_commands' =
             IF collected THEN rc_commands \o e.made ELSE rc_commands
        /\ exc' = e.exc
        /\ IF e.exc # NoException
           THEN pc' = "raised" /\ UNCHANGED idx
           ELSE pc' = next_pc /\ idx' = next_idx

TuneUnchanged ==
  UNCHANGED <<heap, dryrun, mergeVars, doVars, groupVars, paramVars,
              lookupVars, manageVars>>

\* _tune_disk up to its loop.
TuneDiskStart ==
  /\ pc = "do"
  /\ TuneExecutes(<<info("Tuning disk parameters")>>, TRUE, "_tune_disk", 1)
  /\ UNCHANGED rc_file_contents
  /\ TuneUnchanged

\* One device group of the loop of _tune_disk: the lookups and derivations
\* for the group, then the tuning of each of its devices.
TuneDiskGroup ==
  /\ pc = "_tune_disk"
  /\ idx <= Len(configuration.disk.device_groups)
  /\ LET device_group == configuration.disk.device_groups[idx]
         raid_volume ==
           find_raid_volume(configuration, device_group.raid_volume)
     IN  IF raid_volume.exc # NoException THEN TuneRaises(raid_volume.exc)
         ELSE
           LET max_sectors_kb ==
                 raid_chunk_size_kb(raid_volume.found[1].raid_level)
               devices ==
                 find_disk_devices_with_raid_volume(
                   configuration, device_group.raid_volume).found
           IN  IF max_sectors_kb.exc # NoException
               THEN TuneRaises(max_sectors_kb.exc)
               ELSE \E outs \in [1..Len(devices) -> HdparmOutputs] :
                      LET ncq_depth == disk_ncq_depth(devices, outs)
                      IN  IF ncq_depth.exc # NoException
                          THEN TuneRaises(ncq_depth.exc)
                          ELSE TuneExecutes(
                                 _tune_disk_devices(device_group.devices, 1),
                                 TRUE, "_tune_disk", idx + 1)
  /\ UNCHANGED rc_file_contents
  /\ TuneUnchanged

\* _tune_disk returns; _tune_raid writes the two speed limits.
TuneRaidLimits ==
  /\ pc = "_tune_disk"
  /\ idx > Len(configuration.disk.device_groups)
  /\ TuneExecutes(<< info("Tuning RAID parameters"),
                     write("speed_limit_min", PropertyValue("/proc/sys/dev/raid")),
                     write("speed_limit_max", PropertyValue("/proc/sys/dev/raid")) >>,
                  TRUE, "_tune_raid", 1)
  /\ UNCHANGED rc_file_contents
  /\ TuneUnchanged

\* _tune_raid_volume for one volume of the loop of _tune_raid.  The members
\* of a list are evaluated before executor.run is called; a derivation that
\* raises ends do() after the calls made before it.
TuneRaidVolume ==
  /\ pc = "_tune_raid"
  /\ idx <= Len(configuration.raid.volumes)
  /\ LET volume == configuration.raid.volumes[idx]
         devices ==
           find_disk_devices_with_raid_volume(configuration, volume.name).found
         raid_readahead == raid_readahead_sectors(devices)
         raid_stripe_cache == raid_stripe_cache_pages(devices)
     IN  TuneExecutes(
           << info("Tuning RAID volume"),
              Step("run", "blockdev --setra",
                   IF raid_readahead.exc # NoException
                   THEN PropertyRaises(raid_readahead.exc)
                   ELSE label_path(volume)),
              Step("write", "stripe_cache_size",
                   IF raid_stripe_cache.exc # NoException
                   THEN PropertyRaises(raid_stripe_cache.exc)
                   ELSE stripe_cache_size_file(volume)) >>,
           TRUE, "_tune_raid", idx + 1)
  /\ UNCHANGED rc_file_contents
  /\ TuneUnchanged

\* _tune_raid returns; _tune_fs up to its loop.  do() does not keep what
\* _tune_fs returns.
TuneFsStart ==
  /\ pc = "_tune_raid"
  /\ idx > Len(configuration.raid.volumes)
  /\ TuneExecutes(<<info("Tuning FS parameters")>>, FALSE, "_tune_fs", 1)
  /\ UNCHANGED rc_file_contents
  /\ TuneUnchanged

\* _tune_fs_volume for one volume of the loop of _tune_fs.  fs_stride and
\* fs_stripe_width each probe the block sizes of the devices.
TuneFsVolume ==
  /\ pc = "_tune_fs"
  /\ idx <= Len(configuration.fs.volumes)
  /\ LET volume == configuration.fs.volumes[idx]
         disk_device_group ==
           find_disk_device_group_with_fs_volume(configuration, volume.name)
         Tunes(arguments) ==
           TuneExecutes(_tune_fs_volume(volume, arguments), FALSE,
                        "_tune_fs", idx + 1)
     IN  IF disk_device_group.exc # NoException
         THEN Tunes(PropertyRaises(disk_device_group.exc))
         ELSE
           LET devices == disk_device_group.found[1].devices
               raid_volume ==
                 find_raid_volume(configuration,
                                  disk_device_group.found[1].raid_volume)
           IN  IF raid_volume.exc # NoException
               THEN Tunes(PropertyRaises(raid_volume.exc))
               ELSE
                 \E outs1 \in [1..Len(devices) -> BlockdevOutputs] :
                   \E outs2 \in [1..Len(devices) -> BlockdevOutputs] :
                     LET level == raid_volume.found[1].raid_level
                         stride == fs_stride(devices, outs1, level)
                         stripe_width == fs_stripe_width(devices, outs2, level)
                     IN  IF stride.exc # NoException
                         THEN Tunes(PropertyRaises(stride.exc))
                         ELSE IF stripe_width.exc # NoException
                         THEN Tunes(PropertyRaises(stripe_width.exc))
                         ELSE Tunes(PropertyValue(volume.name))
  /\ UNCHANGED rc_file_contents
  /\ TuneUnchanged

\* The call that copies /etc/rc.local to its backup, and the call that
\* writes /etc/rc.local.
IsBackup(call) == call.op = "run" /\ call.what = "cp"

IsRcWrite(call) == call.op = "write" /\ call.what = "rc_file"

\* _tune_fs returns; _tune_persist backs /etc/rc.local up, joins the
\* collected commands with "exit 0" and writes them to it.
TunePersist ==
  /\ pc = "_tune_fs"
  /\ idx > Len(configuration.fs.volumes)
  /\ TuneExecutes(_tune_persist, FALSE, "done", idx)
  /\ rc_file_contents' =
       IF \E i \in 1..Len(issued') : IsRcWrite(issued'[i])
       THEN rc_commands \o <<exit_0>>
       ELSE rc_file_contents
  /\ TuneUnchanged

NextTune ==
  \/ TuneDiskStart
  \/ TuneDiskGroup
  \/ TuneRaidLimits
  \/ TuneRaidVolume
  \/ TuneFsStart
  \/ TuneFsVolume
  \/ TunePersist

SpecTune == InitTune /\ [][NextTune]_vars

\* The failures of the core operations: a volume lookup or a parameter
\* derivation (with the probe it runs) has raised.
CoreErrors ==
  {UnknownRaidVolume, UnknownFsVolume, UnknownCryptVolume, InvalidRaidLevel,
   ValueError, TypeError, ZeroDivisionError, CalledProcessError}

\* A call of the executor has failed on the system: the exception that
\* ended the workflow is not one of a core operation.
CallFailed == \E i \in 1..Len(issued) : issued[i].exc # NoException

\* C12: if a core operation (a parameter derivation or a volume lookup)
\* fails at any point of the tune workflow, the workflow has stopped with no
\* tuning value applied: no command has been run and no control file has
\* been written in that invocation.
C12_NoPartialTuning ==
  (pc = "raised" /\ exc \in CoreErrors /\ ~CallFailed) => executed = <<>>

\* The workflow has entered _tune_persist.
PersistEntered ==
  \E i \in 1..Len(issued) : issued[i].what = "Persisting tuning parameters"

\* C21: in every run of the tune workflow that reaches persistence, the copy
\* of /etc/rc.local to its backup has been issued, and has returned, before
\* /etc/rc.local is written: no write of the rc file is issued without the
\* backup copy before it.
C21_BackupBeforeWrite ==
  \A i \in 1..Len(issued) :
    IsRcWrite(issued[i]) =>
      \E j \in 1..(i - 1) : IsBackup(issued[j]) /\ issued[j].exc = NoException

\* A run has written the rc file.
C21_Witness ==
  /\ pc = "done"
  /\ \E i \in 1..Len(issued) : IsRcWrite(issued[i])

\* The calls of that name that have returned before the i-th call.
Returned_before(what, i) ==
  Cardinality({j \in 1..(i - 1) :
                 issued[j].what = what /\ issued[j].exc = NoException})

RECURSIVE CountDevices(_, _)
CountDevices(groups, i) ==
  IF i > Len(groups) THEN 0
  ELSE Len(groups[i].devices) + CountDevices(groups, i + 1)

\* C28: the rc file is overwritten only after every disk, RAID and
\* filesystem tuning step of the invocation has completed without error (the
\* last call for each device, each RAID volume and each filesystem volume has
\* returned, and no call before the write has failed); in a run that a
\* tuning step ends, neither the backup copy nor the write is issued.
C28_PersistAfterTuning ==
  /\ \A i \in 1..Len(issued) :
       (IsRcWrite(issued[i]) \/ IsBackup(issued[i])) =>
         /\ \A j \in 1..(i - 1) : issued[j].exc = NoException
         /\ Returned_before("queue_depth", i) =
              CountDevices(configuration.disk.device_groups, 1)
         /\ Returned_before("speed_limit_max", i) = 1
         /\ Returned_before("stripe_cache_size", i) =
              Len(configuration.raid.volumes)
         /\ Returned_before("tune2fs -E", i) = Len(configuration.fs.volumes)
  /\ (pc = "raised" /\ ~PersistEntered) =>
       \A i \in 1..Len(issued) :
         ~IsRcWrite(issued[i]) /\ ~IsBackup(issued[i])

\* A run that is not a dryrun has applied the tuning and then replaced the
\* rc file.
C28_Witness ==
  /\ pc = "done" /\ ~dryrun
  /\ \E i \in 1..Len(executed) :
       /\ IsRcWrite(executed[i]) /\ executed[i].exc = NoException
       /\ \E j \in 1..(i - 1) : executed[j].what = "speed_limit_max"

\* A run that a tuning step ended after other steps were applied.
C28_FailedStep ==
  pc = "raised" /\ ~PersistEntered /\ executed # <<>>

\* ------------------------------------------------------------------------
\* parameters.py: unsupported levels in the filesystem derivations
\* ------------------------------------------------------------------------

SupportedRaidLevels == {0, 1, 5, 6}

\* C25: fs_stride and fs_stripe_width called with a raid_level outside
\* {0, 1, 5, 6} fail with InvalidRaidLevel for every device list and for
\* whatever the block-size probes would print, a failing probe and no device
\* included: the level is rejected before a probe can raise, and no other
\* error is raised.
C25_LevelRejectedFirst ==
  ( /\ Called("fs_stride") \/ Called("fs_stripe_width")
    /\ raid_level \notin SupportedRaidLevels )
  => pc = "raised" /\ exc = InvalidRaidLevel

\* fs_stride is called with an unsupported level on devices whose probe
\* would fail.
C25_Witness ==
  /\ Called("fs_stride")
  /\ raid_level \notin SupportedRaidLevels
  /\ \E i \in 1..Len(outputs) : outputs[i].status = "failed"
  /\ exc = InvalidRaidLevel

\* The same with no device at all, for fs_stripe_width.
C25_EmptyList ==
  /\ Called("fs_stripe_width")
  /\ raid_level \notin SupportedRaidLevels
  /\ disk_devices = <<>>
  /\ exc = InvalidRaidLevel

\* ------------------------------------------------------------------------
\* utility.merge_r
\* ------------------------------------------------------------------------

\* The number of further arguments of a call merge_r(lhs, *rhs).
MaxRest == 2

\* merge_r(lhs, *rhs) is reduce(merge, rhs, initializer=lhs), and
\* functools.reduce takes its arguments by position only: the call raises
\* TypeError before merge is applied to anything.
merge_r(h, l, r) == Raise(h, TypeError)

\* A caller of merge_r: lhs and the further arguments are loaded, MaxNodes
\* nodes at most together.
InitMergeR ==
  \E m \in 1..(MaxNodes - 1) : \E k \in 0..MaxRest :
    \E n \in 0..(MaxNodes - m) :
      \E l \in TreeSizes[m] : \E r \in Forests(TreeSizes, k, n) :
        LET a == Load(<<>>, l)
            b == LoadAll(a.heap, r, 1)
        IN  /\ pc = "call"
            /\ heap = b.heap
            /\ lhs = a.ret
            /\ rhs = b.refs
            /\ ret = 0
            /\ NoLayers
            /\ exc = NoException
            /\ idx = 0
            /\ NoMergeAction
            /\ NoGroup
            /\ NoDerivation
            /\ NoLookup
            /\ NoTune

CallMergeR ==
  /\ pc = "call"
  /\ LET m == merge_r(heap, lhs, rhs)
     IN  /\ heap' = m.heap
         /\ ret' = m.ret
         /\ exc' = m.exc
  /\ pc' = "done"
  /\ UNCHANGED <<lhs, rhs, layerVars, idx, doVars, groupVars, paramVars,
                 lookupVars, tuneVars>>

NextMergeR == CallMergeR

SpecMergeR == InitMergeR /\ [][NextMergeR]_vars

\* merge(...merge(merge(l, r1), r2)..., rn) on trees.
RECURSIVE FoldFrom(_, _, _)
FoldFrom(l, r, n) ==
  IF n = 0 THEN [exc |-> NoException, val |-> l]
  ELSE LET folded == FoldFrom(l, r, n - 1)
       IN  IF folded.exc # NoException THEN folded
           ELSE Outcome(folded.val, r[n])

\* C26: merge_r(lhs, r1, ..., rn) returns merge(...merge(merge(lhs, r1),
\* r2)..., rn), failing when that fails, and merge_r(lhs) returns lhs.
C26_MergeRIsLeftFold ==
  pc = "done" =>
    LET fold == FoldFrom(Val(heap, lhs),
                         [i \in 1..Len(rhs) |-> Val(heap, rhs[i])], Len(rhs))
    IN  /\ exc = fold.exc
        /\ exc = NoException => Val(heap, ret) = fold.val

\* ------------------------------------------------------------------------
\* utility.merge on three layers (defaults, group, item)
\* ------------------------------------------------------------------------

\* The sizes of three layers: MaxNodes - 1 nodes at most together, or
\* containers of one member at most each.
LayerSizes ==
  {p \in (1..(MaxNodes - 1)) \X (1..(MaxNodes - 1)) \X (1..(MaxNodes - 1)) :
     \/ p[1] + p[2] + p[3] <= MaxNodes - 1
     \/ \A i \in 1..3 : p[i] <= 2}

\* Three trees are loaded.
InitLayers ==
  \E p \in LayerSizes :
    \E t \in TreeSizes[p[1]] \X TreeSizes[p[2]] \X TreeSizes[p[3]] :
      LET loaded == LoadAll(<<>>, t, 1)
      IN  /\ pc = "call"
          /\ heap = loaded.heap
          /\ layers = loaded.refs
          /\ grouping = ""
          /\ merged = 0
          /\ lhs = 0 /\ rhs = 0 /\ ret = 0
          /\ exc = NoException
          /\ idx = 0
          /\ NoMergeAction
          /\ NoGroup
          /\ NoDerivation
          /\ NoLookup
          /\ NoTune

LayersUnchanged ==
  UNCHANGED <<layers, lhs, rhs, idx, doVars, groupVars, paramVars,
              lookupVars, tuneVars>>

\* The first of the two calls: merge(A, B) or merge(B, C).
MergeFirstPair ==
  /\ pc = "call"
  /\ \E g \in {"left", "right"} :
       LET m == IF g = "left" THEN merge(heap, layers[1], layers[2])
                ELSE merge(heap, layers[2], layers[3])
       IN  /\ grouping' = g
           /\ heap' = m.heap
           /\ merged' = m.ret
           /\ exc' = m.exc
           /\ pc' = IF m.exc # NoException THEN "raised" ELSE "merged"
  /\ UNCHANGED ret
  /\ LayersUnchanged

\* The second call: merge(merge(A, B), C) or merge(A, merge(B, C)).
MergeSecondPair ==
  /\ pc = "merged"
  /\ LET m == IF grouping = "left" THEN merge(heap, merged, layers[3])
              ELSE merge(heap, layers[1], merged)
     IN  /\ heap' = m.heap
         /\ ret' = m.ret
         /\ exc' = m.exc
         /\ pc' = IF m.exc # NoException THEN "raised" ELSE "done"
  /\ UNCHANGED <<grouping, merged>>
  /\ LayersUnchanged

NextLayers == MergeFirstPair \/ MergeSecondPair

SpecLayers == InitLayers /\ [][NextLayers]_vars

Layer(i) == Val(heap, layers[i])

\* The outcome of the two merges in grouping g, on trees.
Grouped(g, A, B, C) ==
  IF g = "left"
  THEN LET ab == Outcome(A, B)
       IN  IF ab.exc # NoException THEN ab ELSE Outcome(ab.val, C)
  ELSE LET bc == Outcome(B, C)
       IN  IF bc.exc # NoException THEN bc ELSE Outcome(A, bc.val)

OtherGrouping(g) == IF g = "left" THEN "right" ELSE "left"

\* C27: merge is associative: merge(merge(A, B), C) and
\* merge(A, merge(B, C)) both fail with InconsistentTypeError or both return
\* equal trees with the same key order; whichever grouping a run takes, its
\* outcome is that of the other grouping.
C27_MergeAssociative ==
  (grouping # "" /\ pc \in {"done", "raised"}) =>
    LET other == Grouped(OtherGrouping(grouping), Layer(1), Layer(2), Layer(3))
    IN  /\ exc = other.exc
        /\ exc \in {NoException, InconsistentTypeError}
        /\ exc = NoException => Val(heap, ret) = other.val

\* Three mappings of one key each, not all the same key, were merged with
\* the second pair first.
C27_Witness ==
  /\ pc = "done" /\ grouping = "right"
  /\ \A i \in 1..3 : Layer(i).type = "OrderedDict" /\ Len(Layer(i).keys) = 1
  /\ Len(Val(heap, ret).keys) = 2
  /\ Layer(1).keys = Layer(3).keys

\* One grouping fails at its first merge, the other at its second.
C27_BothFail ==
  /\ pc = "raised" /\ grouping = "right" /\ merged # 0
  /\ Outcome(Layer(1), Layer(2)).exc = InconsistentTypeError

\* ------------------------------------------------------------------------
\* actions/tune.py: the devices behind a filesystem volume
\* ------------------------------------------------------------------------

\* C29: the device list from which _tune_fs_volume derives stride and
\* stripe-width (the devices of the group found for the filesystem volume)
\* is the device list from which _tune_raid_volume derives read-ahead and
\* stripe cache of the RAID volume underneath (the devices of every group of
\* that RAID volume), also when several groups name that RAID volume.
C29_FsDevicesAreRaidDevices ==
  (callee = "find_disk_device_group_with_fs_volume" /\ pc = "returned") =>
    found[1].devices =
      find_disk_devices_with_raid_volume(configuration,
                                         found[1].raid_volume).found

\* ------------------------------------------------------------------------
\* executor.py: Executor.run, Executor.write, Executor.spawn
\* ------------------------------------------------------------------------

\* The number of calls made on one Executor.
MaxCalls == 3

\* The commands run or spawned, and the files written.
Commands == {"cp", "dd"}

Files == {"/etc/rc.local", "/sys/block"}

\* What a call returns: a string (its words), None, or a process handle
\* (its index in handles).
ReturnedString(text) == [type |-> "str", text |-> text, handle |-> 0]

ReturnedHandle(type, h) == [type |-> type, text |-> <<>>, handle |-> h]

\* DryrunPopen(command): returncode is 0 from the start, there is no process.
DryrunPopen ==
  [type |-> "DryrunPopen", returncode |-> PyInt(0), alive |-> FALSE,
   status |-> 0]

\* subprocess.Popen(command): a running process, no returncode yet; status
\* is the exit status of the process once it has exited.
Popen ==
  [type |-> "Popen", returncode |-> PyNone, alive |-> TRUE, status |-> 0]

ExitStatuses == {0, 1}

\* The outcome of a call: the call as made, what it did on the system, the
\* exception it raised, what it returned and the handle it made.
Outcome_of(call, dry, fails, value_returned, made) ==
  [call |-> IF ~dry /\ fails THEN [call EXCEPT !.exc = Failure(call.op)]
            ELSE call,
   effects |-> IF dry THEN <<>>
               ELSE IF fails /\ call.op = "spawn" THEN <<>>
               ELSE <<call>>,
   exc |-> IF ~dry /\ fails THEN Failure(call.op) ELSE NoException,
   ret |-> value_returned,
   handles |-> IF ~dry /\ fails THEN <<>> ELSE made]

\* Variant: the command is run whether dryrun or not.
Executor_run_Always(dry, command, fails, h) ==
  Outcome_of(run(command, PropertyValue("")), FALSE, fails,
             ReturnedString(<<command>>), <<>>)

\* Executor.run: check_call(command) unless dryrun; returns the joined
\* command.
Executor_run(dry, command, fails, h) ==
  Outcome_of(run(command, PropertyValue("")), dry, fails,
             ReturnedString(<<command>>), <<>>)

\* Executor.write: print(content, file=open(filepath, "w")) unless dryrun;
\* returns the echo line.
Executor_write(dry, filepath, fails, h) ==
  Outcome_of(write("content", PropertyValue(filepath)), dry, fails,
             ReturnedString(<<"echo", "content", ">", filepath>>), <<>>)

\* Executor.spawn: DryrunPopen(command) if dryrun, else Popen(command); h
\* handles exist already.
Executor_spawn(dry, command, fails, h) ==
  Outcome_of(Step("spawn", command, PropertyValue("")), dry, fails,
             ReturnedHandle(IF dry THEN "DryrunPopen" ELSE "Popen", h + 1),
             <<IF dry THEN DryrunPopen ELSE Popen>>)

\* An Executor is constructed.
InitExecutor ==
  /\ pc = "calls"
  /\ dryrun \in BOOLEAN
  /\ rc_commands = <<>> /\ executed = <<>> /\ issued = <<>>
  /\ rc_file_contents = <<>>
  /\ NoManage
  /\ exc = NoException
  /\ heap = <<>>
  /\ idx = 0
  /\ NoMergeCall
  /\ NoMergeAction
  /\ NoGroup
  /\ NoDerivation
  /\ NoLookup

\* The caller makes a call with outcome r; an exception ends the caller.
ExecutorCall(r) ==
  /\ issued' = Append(issued, r.call)
  /\ executed' = executed \o r.effects
  /\ handles' = handles \o r.handles
  /\ exc' = r.exc
  /\ IF r.exc # NoException
     THEN pc' = "raised" /\ UNCHANGED returned
     ELSE pc' = "calls" /\ returned' = Append(returned, r.ret)
  /\ UNCHANGED <<heap, idx, dryrun, rc_commands, rc_file_contents, args,
                 processes, mergeVars, doVars, groupVars, paramVars,
                 lookupVars>>

Call_run ==
  /\ pc = "calls" /\ Len(issued) < MaxCalls
  /\ \E command \in Commands : \E fails \in BOOLEAN :
       ExecutorCall(Executor_run(dryrun, command, fails, Len(handles)))

Call_write ==
  /\ pc = "calls" /\ Len(issued) < MaxCalls
  /\ \E filepath \in Files : \E fails \in BOOLEAN :
       ExecutorCall(Executor_write(dryrun, filepath, fails, Len(handles)))

Call_spawn ==
  /\ pc = "calls" /\ Len(issued) < MaxCalls
  /\ \E command \in Commands : \E fails \in BOOLEAN :
       ExecutorCall(Executor_spawn(dryrun, command, fails, Len(handles)))

\* A spawned process exits.
ProcessExits ==
  /\ \E h \in DOMAIN handles :
       /\ handles[h].alive
       /\ \E status \in ExitStatuses :
            handles' = [handles EXCEPT ![h].alive = FALSE,
                                       ![h].status = status]
  /\ UNCHANGED <<pc, heap, exc, idx, dryrun, rc_commands, executed, issued,
                 rc_file_contents, args, returned, processes, mergeVars,
                 doVars, groupVars, paramVars, lookupVars>>

NextExecutor == Call_run \/ Call_write \/ Call_spawn \/ ProcessExits

SpecExecutor == InitExecutor /\ [][NextExecutor]_vars

\* What the i-th call returns when made without dryrun and nothing fails.
ReturnedWithoutDryrun(i) ==
  LET call == issued[i]
  IN  CASE call.op = "run" -> Executor_run(FALSE, call.what, FALSE, 0).ret
        [] call.op = "write" -> Executor_write(FALSE, call.on, FALSE, 0).ret
        [] call.op = "spawn" -> Executor_spawn(FALSE, call.what, FALSE, 0).ret

\* C22: with dryrun enabled, whatever sequence of run, write and spawn is
\* called, no command is executed, no file is written and no process is
\* spawned; every call returns, run and write return the command string they
\* return without dryrun, and spawn returns a handle that reports completion
\* (its returncode is set).
C22_DryrunExecutesNothing ==
  dryrun =>
    /\ executed = <<>>
    /\ \A h \in DOMAIN handles : ~handles[h].alive
    /\ pc # "raised"
    /\ Len(returned) = Len(issued)
    /\ \A i \in 1..Len(returned) :
         IF issued[i].op = "spawn"
         THEN /\ returned[i].handle \in DOMAIN handles
              /\ handles[returned[i].handle].returncode # PyNone
         ELSE returned[i] = ReturnedWithoutDryrun(i)

\* A dryrun in which run, write and spawn have all been called.
C22_Witness ==
  /\ dryrun
  /\ Len(returned) = MaxCalls
  /\ \A op \in {"run", "write", "spawn"} :
       \E i \in 1..Len(issued) : issued[i].op = op

\* Without dryrun the same calls reach the system.
C22_NotDryrun ==
  /\ ~dryrun
  /\ Len(executed) = MaxCalls
  /\ \E h \in DOMAIN handles : handles[h].returncode = PyNone

\* ------------------------------------------------------------------------
\* manage.py: the subcommands create, tune, start, stop
\* ------------------------------------------------------------------------

\* The number of block devices given by --devices (one at least).
MaxDevices == 2

\* The functions each subcommand calls, in the order of its body.
create ==
  << "randomize_drives", "partition_drives", "create_raid", "configure_raid",
     "create_crypt", "start_crypt", "create_fs" >>

tune ==
  << "tune_drives", "start_raid", "tune_raid", "start_crypt", "tune_fs",
     "tune_persistent" >>

start == << "start_raid", "start_crypt" >>

stop == << "stop_crypt", "stop_raid" >>

\* args.func
Subcommand(name) ==
  CASE name = "create" -> create
    [] name = "tune" -> tune
    [] name = "start" -> start
    [] name = "stop" -> stop

\* The function a subcommand calls after f has returned; after its last
\* function the subcommand returns.
After(calls, f) ==
  LET i == CHOOSE j \in DOMAIN calls : calls[j] = f
  IN  IF i = Len(calls) THEN "returned" ELSE calls[i + 1]

\* args.devices[d], md_device_label(args), crypt_device(args)
Device(d) == "/dev/sd"

md_device == PropertyValue("/dev/md")

crypt_device == PropertyValue("/dev/mapper")

\* rc_commands.append(line): the line that replays a call, or a comment.
append(call) == Step("append", call.what, PropertyValue(call.on))

comment(text) == Step("append", text, PropertyValue(""))

\* A call followed by the append of the line that replays it.
Logged(call) == << call, append(call) >>

\* tune_drives for one device.  The line for max_sectors_kb is formatted with
\* %d from args.raid_chunk_size, which is None for RAID level 1 unless given:
\* the formatting then raises TypeError, after the file was written.
tune_drive(a, d) ==
  << comment("# Tune drive") >>
  \o Logged(run("blockdev --setra", PropertyValue(Device(d))))
  \o << write("max_sectors_kb", PropertyValue(Device(d))),
        Step("append", "max_sectors_kb",
             IF a.raid_chunk_size = PyNone THEN PropertyRaises(TypeError)
             ELSE PropertyValue(Device(d))) >>
  \o Logged(write("nr_requests", PropertyValue(Device(d))))
  \o Logged(write("queue_depth", PropertyValue(Device(d))))

RECURSIVE tune_drives(_, _)
tune_drives(a, d) ==
  IF d > a.devices THEN <<>> ELSE tune_drive(a, d) \o tune_drives(a, d + 1)

tune_raid ==
  << comment("# Tune RAID device") >>
  \o Logged(run("blockdev --setra", md_device))
  \o Logged(write("stripe_cache_size", md_device))
  \o Logged(write("speed_limit_min", PropertyValue("/proc/sys/dev/raid")))
  \o Logged(write("speed_limit_max", PropertyValue("/proc/sys/dev/raid")))

\* tune_fs runs tune2fs and appends nothing to rc_commands.
tune_fs == << run("tune2fs -E", crypt_device) >>

tune_persistent ==
  << info("Persisting tuning parameters"),
     run("cp", PropertyValue("/etc/rc.local")),
     write("rc_file", PropertyValue("/etc/rc.local")) >>

start_raid == << run("mdadm --assemble", md_device) >>

start_crypt == << run("cryptsetup luksOpen", md_device) >>

stop_raid == << run("mdadm --stop", md_device) >>

stop_crypt == << run("cryptsetup luksClose", crypt_device) >>

\* create_raid: after the two mdadm commands the wait for the resync calls
\* _sync_action(sync_action_file_path), and _sync_action is defined without
\* parameters: the call raises TypeError.
create_raid ==
  << info("Creating new RAID volume"),
     run("mdadm --zero-superblock", md_device),
     run("mdadm --create", md_device),
     Step("call", "_sync_action", PropertyRaises(TypeError)) >>

\* configure_raid: mdadm --detail --scan is read by subprocess.check_output.
configure_raid ==
  << info("Configuring MDADM"),
     Step("check_output", "mdadm --detail --scan", PropertyValue("")),
     write("mdadm.conf", PropertyValue("/etc/mdadm/mdadm.conf")) >>

create_crypt == << run("cryptsetup luksFormat", md_device) >>

create_fs == << run("mke2fs", crypt_device) >>

\* The calls of a function whose body is a list of calls.
Body(f, a) ==
  CASE f = "tune_drives" -> tune_drives(a, 1)
    [] f = "tune_raid" -> tune_raid
    [] f = "tune_fs" -> tune_fs
    [] f = "tune_persistent" -> tune_persistent
    [] f = "start_raid" -> start_raid
    [] f = "start_crypt" -> start_crypt
    [] f = "stop_raid" -> stop_raid
    [] f = "stop_crypt" -> stop_crypt
    [] f = "create_raid" -> create_raid
    [] f = "configure_raid" -> configure_raid
    [] f = "create_crypt" -> create_crypt
    [] f = "create_fs" -> create_fs

ListFunctions ==
  {"tune_drives", "tune_raid", "tune_fs", "tune_persistent", "start_raid",
   "start_crypt", "stop_raid", "stop_crypt", "create_raid", "configure_raid",
   "create_crypt", "create_fs"}

\* parse_args: --randomize belongs to create, --raid_chunk_size to create
\* and tune.
ParsedArgs ==
  {a \in [func : {"create", "tune", "start", "stop"},
          randomize : BOOLEAN,
          devices : 1..MaxDevices,
          raid_chunk_size : {PyNone, PyInt(64)}] :
     /\ a.randomize => a.func = "create"
     /\ a.func \in {"start", "stop"} =>
          (a.devices = 1 /\ a.raid_chunk_size = PyNone)}

\* The command line is parsed.
InitManage ==
  /\ pc = "main"
  /\ args \in ParsedArgs
  /\ dryrun \in BOOLEAN
  /\ rc_commands = <<>> /\ executed = <<>> /\ issued = <<>>
  /\ rc_file_contents = <<>>
  /\ returned = <<>> /\ handles = <<>> /\ processes = <<>>
  /\ exc = NoException
  /\ heap = <<>>
  /\ idx = 0
  /\ NoMergeCall
  /\ NoMergeAction
  /\ NoGroup
  /\ NoDerivation
  /\ NoLookup

ManageUnchanged ==
  UNCHANGED <<heap, dryrun, args, returned, mergeVars, doVars, groupVars,
              paramVars, lookupVars>>

IsAppend(step) == step.op = "append"

\* The calls of a list are made in turn, as far as they get, and the lines
\* are appended to rc_commands; if all are made the run goes on at next_pc.
ManageExecutes(steps, next_pc, next_idx) ==
  \E fail \in FailPoints(steps, dryrun) :
    LET e == Execute(steps, 1, fail)
        calls == SelectSeq(e.made \o e.failed, LAMBDA c : ~IsAppend(c))
    IN  /\ issued' = issued \o calls
        /\ executed' = executed \o Effects(calls, dryrun)
        /\ rc_commands' = rc_commands \o SelectSeq(e.made, IsAppend)
        /\ exc' = e.exc
        /\ IF e.exc # NoException
           THEN pc' = "raised" /\ UNCHANGED idx
           ELSE pc' = next_pc /\ idx' = next_idx

\* args.func(args)
Main ==
  /\ pc = "main"
  /\ pc' = Subcommand(args.func)[1]
  /\ UNCHANGED <<exc, idx, rc_commands, executed, issued, rc_file_contents,
                 handles, processes>>
  /\ ManageUnchanged

\* A function whose body is a list of calls runs and returns to the
\* subcommand.  tune_persistent joins rc_commands and "exit 0".
Call ==
  /\ pc \in ListFunctions
  /\ ManageExecutes(Body(pc, args), After(Subcommand(args.func), pc), 0)
  /\ rc_file_contents' =
       IF pc = "tune_persistent" THEN rc_commands \o <<exit_0>>
       ELSE rc_file_contents
  /\ UNCHANGED <<handles, processes>>
  /\ ManageUnchanged

\* randomize_drives without --randomize returns at once.
Randomize_none ==
  /\ pc = "randomize_drives"
  /\ ~args.randomize
  /\ pc' = After(create, "randomize_drives")
  /\ UNCHANGED <<exc, idx, rc_commands, executed, issued, rc_file_contents,
                 handles, processes>>
  /\ ManageUnchanged

RECURSIVE get_sectors(_, _)
get_sectors(a, d) ==
  IF d > a.devices THEN <<>>
  ELSE << Step("check_output", "blockdev --getsz", PropertyValue(Device(d))) >>
       \o get_sectors(a, d + 1)

\* randomize_drives up to the first spawn: the sector count of every device
\* is read, with or without dryrun.
Randomize_get_sectors ==
  /\ pc = "randomize_drives"
  /\ args.randomize
  /\ ManageExecutes(<<info("Randomizing devices in parallel")>>
                    \o get_sectors(args, 1), "spawn", 1)
  /\ UNCHANGED <<rc_file_contents, handles, processes>>
  /\ ManageUnchanged

\* spawn(args, ["dd", ...]) for one device: a DryrunPopen if dryrun, else a
\* Popen, which may fail to start.  The list of all handles is bound to
\* processes when the last is spawned.
Randomize_spawn ==
  /\ pc = "spawn"
  /\ idx <= args.devices
  /\ \E fails \in BOOLEAN :
       LET r == Executor_spawn(dryrun, "dd", fails, Len(handles))
       IN  /\ issued' = Append(issued, r.call)
           /\ executed' = executed \o r.effects
           /\ handles' = handles \o r.handles
           /\ exc' = r.exc
           /\ IF r.exc # NoException
              THEN pc' = "raised" /\ UNCHANGED <<idx, processes>>
              ELSE IF idx = args.devices
              THEN /\ pc' = "while"
                   /\ idx' = 0
                   /\ processes' = [i \in 1..Len(handles') |-> i]
              ELSE pc' = "spawn" /\ idx' = idx + 1 /\ UNCHANGED processes
  /\ UNCHANGED <<rc_commands, rc_file_contents>>
  /\ ManageUnchanged

\* Popen.poll sets returncode once the process has exited; DryrunPopen.poll
\* does nothing.
poll(p) ==
  IF p.type = "Popen" /\ ~p.alive /\ p.returncode = PyNone
  THEN [p EXCEPT !.returncode = PyInt(p.status)]
  ELSE p

\* Variant: poll reports completion of a process that still runs.
Remaining_Eager(h, waited) == <<>>

\* processes = [p for p in processes if p.returncode is None]
Remaining(h, waited) ==
  SelectSeq(waited, LAMBDA p : h[p].returncode = PyNone)

\* One turn of the loop: sleep, poll every remaining process, keep those
\* without returncode.
Randomize_poll ==
  /\ pc = "while"
  /\ Len(processes) > 0
  /\ handles' = [h \in DOMAIN handles |->
                   IF h \in Range(processes) THEN poll(handles[h])
                   ELSE handles[h]]
  /\ processes' = Remaining(handles', processes)
  /\ UNCHANGED <<pc, exc, idx, rc_commands, executed, issued,
                 rc_file_contents>>
  /\ ManageUnchanged

\* The loop ends: randomize_drives returns.
Randomize_return ==
  /\ pc = "while"
  /\ Len(processes) = 0
  /\ pc' = After(create, "randomize_drives")
  /\ UNCHANGED <<exc, idx, rc_commands, executed, issued, rc_file_contents,
                 handles, processes>>
  /\ ManageUnchanged

RECURSIVE parted(_, _, _)
parted(a, d, what) ==
  IF d > a.devices THEN <<>>
  ELSE << run(what, PropertyValue(Device(d))) >> \o parted(a, d + 1, what)

\* partition_drives: a new label on every device.
Partition_mklabel ==
  /\ pc = "partition_drives"
  /\ ManageExecutes(<<info("Partitioning devices")>>
                    \o parted(args, 1, "parted mklabel"),
                    "wait_for_partitions(True)", 0)
  /\ UNCHANGED <<rc_file_contents, handles, processes>>
  /\ ManageUnchanged

\* wait_for_partitions returns: at once if dryrun, else when the listing of
\* the device directory shows what is waited for.
Partitions_waited ==
  /\ pc \in {"wait_for_partitions(True)", "wait_for_partitions(False)"}
  /\ pc' = IF pc = "wait_for_partitions(True)" THEN "mkpart"
           ELSE After(create, "partition_drives")
  /\ UNCHANGED <<exc, idx, rc_commands, executed, issued, rc_file_contents,
                 handles, processes>>
  /\ ManageUnchanged

\* partition_drives: one partition on every device.
Partition_mkpart ==
  /\ pc = "mkpart"
  /\ ManageExecutes(parted(args, 1, "parted mkpart"),
                    "wait_for_partitions(False)", 0)
  /\ UNCHANGED <<rc_file_contents, handles, processes>>
  /\ ManageUnchanged

\* The programme takes a step.
ManageStep ==
  \/ Main
  \/ Call
  \/ Randomize_none
  \/ Randomize_get_sectors
  \/ Randomize_spawn
  \/ Randomize_poll
  \/ Randomize_return
  \/ Partition_mklabel
  \/ Partitions_waited
  \/ Partition_mkpart

NextManage == ManageStep \/ ProcessExits

SpecManage == InitManage /\ [][NextManage]_vars

\* ------------------------------------------------------------------------
\* C23: the persisted script replays the tuning commands
\* ------------------------------------------------------------------------

\* The commands and control files that tune a disk, the RAID volume or the
\* filesystem.
TuningCommands ==
  {"blockdev --setra", "max_sectors_kb", "nr_requests", "queue_depth",
   "stripe_cache_size", "speed_limit_min", "speed_limit_max", "tune2fs -E"}

IsTuning(c) == c.what \in TuningCommands

\* The tuning commands of a sequence of calls or of script lines, each as
\* the pair of what is done and what it is done on.
TuningOf(calls) ==
  LET tuning == SelectSeq(calls, IsTuning)
  IN  [i \in DOMAIN tuning |-> <<tuning[i].what, tuning[i].on>>]

RcFileWritten == \E i \in 1..Len(issued) : IsRcWrite(issued[i])

\* C23: once the tune workflow has written the script, the tuning commands in
\* the script are the tuning commands issued by the workflow, each once and
\* in the order of issue, and the last line of the script is "exit 0".
C23_ScriptReplaysIssued ==
  (args.func = "tune" /\ pc = "returned" /\ RcFileWritten) =>
    /\ TuningOf(rc_file_contents) = TuningOf(issued)
    /\ rc_file_contents[Len(rc_file_contents)] = exit_0

\* The disk and RAID commands alone are replayed in order (the part of C23
\* that the code keeps).
C23_DiskAndRaidReplayed ==
  (args.func = "tune" /\ pc = "returned" /\ RcFileWritten) =>
    /\ TuningOf(rc_file_contents)
         = SelectSeq(TuningOf(issued), LAMBDA l : l[1] # "tune2fs -E")
    /\ rc_file_contents[Len(rc_file_contents)] = exit_0

\* ------------------------------------------------------------------------
\* C24: randomize_drives spawns, then polls until every process is done
\* ------------------------------------------------------------------------

\* The steps of randomize_drives once --randomize is given.
RandomizeStep ==
  \/ Randomize_get_sectors
  \/ Randomize_spawn
  \/ Randomize_poll
  \/ Randomize_return

\* The interpreter goes on executing randomize_drives: time.sleep(0.1)
\* returns and poll does not block.  Nothing is assumed of the spawned
\* processes nor of the device directory.
SpecManageFair == SpecManage /\ WF_vars(RandomizeStep)

Randomizing == pc \in {"spawn", "while"}

Spawns == SelectSeq(issued, LAMBDA c : c.op = "spawn")

Completed(p) == p.returncode # PyNone

\* Every process eventually exits.
AllExit ==
  \A h \in 1..MaxDevices :
    []<>(h \in DOMAIN handles => ~handles[h].alive)

\* While the loop waits there is one process per device, all spawned before.
SpawnedBeforeWaiting ==
  pc = "while" =>
    /\ Len(handles) = args.devices
    /\ Len(Spawns) = args.devices
    /\ \A i \in 1..Len(processes) : processes[i] \in DOMAIN handles

\* A turn of the loop leaves no process to wait for exactly if all have a
\* return code.
PollKeepsUncompleted ==
  (pc = "while" /\ pc' = "while") =>
    (processes' = <<>> <=>
       \A h \in DOMAIN handles' : Completed(handles'[h]))

\* The loop is left only when every process has exited and has a return code.
ReturnsWhenAllCompleted ==
  (pc = "while" /\ pc' # "while") =>
    \A h \in DOMAIN handles : Completed(handles[h]) /\ ~handles[h].alive

\* With dryrun the first poll leaves nothing to wait for.
DryrunOnePoll ==
  (dryrun /\ pc = "while" /\ processes # <<>>) => processes' = <<>>

\* C24: randomize_drives spawns one process per device before it waits, a
\* turn of its loop ends the wait if and only if every process has a return
\* code, it does not return while a process runs, with dryrun it is done
\* after the first poll, and if every process eventually exits it ends.
C24_RandomizeWaitsForAll ==
  /\ []SpawnedBeforeWaiting
  /\ [][PollKeepsUncompleted]_vars
  /\ [][ReturnsWhenAllCompleted]_vars
  /\ [][DryrunOnePoll]_vars
  /\ (AllExit => (Randomizing ~> ~Randomizing))

\* Without dryrun, the processes of all devices have exited and
\* randomize_drives has returned.
C24_Witness ==
  /\ ~dryrun /\ args.randomize
  /\ pc = "partition_drives"
  /\ Len(handles) = MaxDevices
  /\ \A h \in DOMAIN handles :
       handles[h].type = "Popen" /\ Completed(handles[h])

\* With dryrun, randomize_drives has returned.
C24_DryrunReturned ==
  /\ dryrun /\ args.randomize
  /\ pc = "partition_drives"
  /\ Len(handles) = args.devices

\* ------------------------------------------------------------------------
\* C30: the layers are brought up and down in stack order
\* ------------------------------------------------------------------------

\* The place of a command in the stack order of a subcommand: for create
\* randomize, partition, RAID creation, RAID configuration, crypt creation,
\* crypt open, filesystem creation; for start RAID then crypt; for stop
\* crypt then RAID.
StackRank(func, what) ==
  CASE func = "stop" /\ what = "cryptsetup luksClose" -> 1
    [] func = "stop" /\ what = "mdadm --stop" -> 2
    [] func = "start" /\ what = "mdadm --assemble" -> 1
    [] func = "start" /\ what = "cryptsetup luksOpen" -> 2
    [] func = "create" /\ what \in {"blockdev --getsz", "dd"} -> 1
    [] func = "create" /\ what \in {"parted mklabel", "parted mkpart"} -> 2
    [] func = "create"
       /\ what \in {"mdadm --zero-superblock", "mdadm --create"} -> 3
    [] func = "create"
       /\ what \in {"mdadm --detail --scan", "mdadm.conf"} -> 4
    [] func = "create" /\ what = "cryptsetup luksFormat" -> 5
    [] func = "create" /\ what = "cryptsetup luksOpen" -> 6
    [] func = "create" /\ what = "mke2fs" -> 7
    [] OTHER -> 0

\* The commands a subcommand has issued when all its steps are done.
StackCommands(a) ==
  CASE a.func = "start" -> {"mdadm --assemble", "cryptsetup luksOpen"}
    [] a.func = "stop" -> {"cryptsetup luksClose", "mdadm --stop"}
    [] a.func = "create" ->
         {"parted mklabel", "parted mkpart", "mdadm --create", "mdadm.conf",
          "cryptsetup luksFormat", "cryptsetup luksOpen", "mke2fs"}
         \cup (IF a.randomize THEN {"dd"} ELSE {})
    [] OTHER -> {}

Issued(what) == \E i \in 1..Len(issued) : issued[i].what = what

\* The commands issued are those of the stack, in stack order.
IssuedInStackOrder ==
  /\ \A i \in 1..Len(issued) :
       issued[i].op # "info" => StackRank(args.func, issued[i].what) > 0
  /\ \A i, j \in 1..Len(issued) :
       (i < j /\ issued[i].op # "info" /\ issued[j].op # "info") =>
         StackRank(args.func, issued[i].what)
           <= StackRank(args.func, issued[j].what)

\* A step of create, start or stop starts when the one before has returned:
\* no process of the randomize step runs once a later step has begun.
PreviousStepReturned ==
  (\E i \in 1..Len(issued) : StackRank(args.func, issued[i].what) > 1) =>
    \A h \in DOMAIN handles : ~handles[h].alive

\* The subcommand has ended, and not because a command it issued failed.
EndedWithoutFailedCall == pc \in {"returned", "raised"} /\ ~CallFailed

\* C30: start, stop and create issue the commands of their steps in stack
\* order, each step after the one before has returned, and unless a command
\* fails they issue every step.
C30_StackOrder ==
  args.func \in {"create", "start", "stop"} =>
    /\ IssuedInStackOrder
    /\ PreviousStepReturned
    /\ EndedWithoutFailedCall =>
         \A what \in StackCommands(args) : Issued(what)

\* What is issued is in stack order, and start and stop issue both their
\* steps (the part of C30 that the code keeps).
C30_OrderOfIssued ==
  args.func \in {"create", "start", "stop"} =>
    /\ IssuedInStackOrder
    /\ PreviousStepReturned
    /\ (args.func # "create" /\ EndedWithoutFailedCall) =>
         \A what \in StackCommands(args) : Issued(what)

\* create never gets further than RAID creation.
C30_CreateStopsAtRaid ==
  args.func = "create" =>
    /\ pc # "returned"
    /\ \A i \in 1..Len(issued) : StackRank("create", issued[i].what) <= 3

====
